---- MODULE Spec2Model ----
(***************************************************************************)
(* Model of github.com/covrom/openapi-openai-go: conversion of an OpenAPI  *)
(* document into LLM function definitions (apiai.go), construction of the  *)
(* API client (apiai.go, client.go) and execution of a function call as an *)
(* HTTP request (fhandler.go).                                             *)
(*                                                                         *)
(* Go strings that the code inspects character by character (paths, names, *)
(* references, URLs) are sequences of one-character strings.  Strings the  *)
(* code only copies or compares as a whole (schema types, descriptions,    *)
(* parameter locations, media types) are TLA+ strings.  A Go pointer is a  *)
(* sequence of length 0 (nil) or 1; a Go map that may be nil is a record   *)
(* [isnil, m].                                                             *)
(***************************************************************************)
EXTENDS Integers, Sequences, FiniteSets, TLC

VARIABLES
    inPath, inMethod, outName,          \* sanitizeFunctionName: arguments, result
    inParam, inSpec, outParam,          \* resolveParameterRef: arguments, result
    doc, functions, convOrder, mtOrder, convDone,  \* ConvertOpenAPIToFunctions:
                    \* argument, result, map iteration orders taken, returned
    baseURL, authConfig, client, clientStatus,  \* NewAPIClient: arguments, result,
                    \* outcome ("none" before the call, "ok", "error", "panic")
    handler, callFn, callArgs,          \* ExecuteFunction: variant run, arguments,
    req, wire, response, result, err, bodyClosed,
                    \* request handed to the HTTP client, request handed to the
                    \* transport, response, returned value and error
    callCtx, attempts, rtCalls, bodyRead, gor,
                    \* the context the caller runs under, the number of times
                    \* the call ran HTTPClient.Do, the number of times RoundTrip
                    \* ran the wrapped transport, how much of the response body
                    \* was read ("" without a response, "all", "part"),
                    \* the calls of ExecuteFunction that run side by side
                    \* on one client and one definition
    inData, loader, loadSpec, loadErr, loadTried,  \* UnmarshalOpenAPISpec*:
                    \* argument, function called, returned document and error,
                    \* decoders run
    origReq, jar, calls, tokenLog,
                    \* http.Client.Do: the caller's request after the call, the
                    \* cookie jar, number of calls, tokens the token source
                    \* has handed out
    inSchema, outSchema, outAgain       \* convertSchemaToProperty: argument, result,
                    \* result of converting the result

nameVars    == <<inPath, inMethod, outName>>
resolveVars == <<inParam, inSpec, outParam>>
convVars    == <<doc, functions, convOrder, mtOrder, convDone>>
clientVars  == <<baseURL, authConfig, client, clientStatus>>
execVars    == <<handler, callFn, callArgs, req, wire, response, result, err, bodyClosed,
                 callCtx, attempts, rtCalls, bodyRead, gor>>
loadVars    == <<inData, loader, loadSpec, loadErr, loadTried>>
sessVars    == <<origReq, jar, calls, tokenLog>>
schemaVars  == <<inSchema, outSchema, outAgain>>
vars        == <<nameVars, resolveVars, convVars, clientVars, execVars, loadVars, sessVars,
                 schemaVars>>

----
(* Bounds *)

MaxPathLen == 3
MaxParams  == 2
MaxOps     == 3
MaxCalls   == 2
MaxDepth   == 2

----
(* Strings *)

BoundedSeq(S, n) == UNION {[1..k -> S] : k \in 0..n}

Range(s) == {s[i] : i \in DOMAIN s}

HasPrefix(s, p) == Len(s) >= Len(p) /\ SubSeq(s, 1, Len(p)) = p

HasSuffix(s, p) == Len(s) >= Len(p) /\ SubSeq(s, Len(s) - Len(p) + 1, Len(s)) = p

RECURSIVE Concat(_)
Concat(ss) == IF ss = <<>> THEN <<>> ELSE Head(ss) \o Concat(Tail(ss))

\* strings.ReplaceAll(s, old, new) for a non-empty old: non-overlapping
\* occurrences, left to right.
RECURSIVE ReplaceAll(_, _, _)
ReplaceAll(s, old, new) ==
    IF s = <<>> THEN <<>>
    ELSE IF HasPrefix(s, old)
         THEN new \o ReplaceAll(SubSeq(s, Len(old) + 1, Len(s)), old, new)
         ELSE <<Head(s)>> \o ReplaceAll(Tail(s), old, new)

\* strings.Split(s, sep) for a one-character sep: Split("", "/") is [""].
RECURSIVE SplitFrom(_, _, _)
SplitFrom(s, sep, cur) ==
    IF s = <<>> THEN <<cur>>
    ELSE IF Head(s) = sep
         THEN <<cur>> \o SplitFrom(Tail(s), sep, <<>>)
         ELSE SplitFrom(Tail(s), sep, Append(cur, Head(s)))

Split(s, sep) == SplitFrom(s, sep, <<>>)

UpperLetters == <<"A", "B", "C", "D", "E", "F", "G", "H", "I", "J", "K", "L", "M",
                  "N", "O", "P", "Q", "R", "S", "T", "U", "V", "W", "X", "Y", "Z">>
LowerLetters == <<"a", "b", "c", "d", "e", "f", "g", "h", "i", "j", "k", "l", "m",
                  "n", "o", "p", "q", "r", "s", "t", "u", "v", "w", "x", "y", "z">>

ToLowerChar(c) ==
    IF c \in Range(UpperLetters)
    THEN LowerLetters[CHOOSE i \in DOMAIN UpperLetters : UpperLetters[i] = c]
    ELSE c

\* strings.ToLower
ToLower(s) == [i \in DOMAIN s |-> ToLowerChar(s[i])]

\* m[k] = v on a Go map.
MapSet(f, k, v) == [x \in DOMAIN f \cup {k} |-> IF x = k THEN v ELSE f[x]]

----
(* String literals of the model *)

PetsPath     == <<"/", "p", "e", "t", "s">>
PetsIdPath   == <<"/", "p", "e", "t", "s", "/", "{", "i", "d", "}">>
UsersIdPath  == <<"/", "u", "s", "e", "r", "s", "/", "{", "i", "d", "}">>
UsersUIdPath == <<"/", "u", "s", "e", "r", "s", "_", "i", "d">>
ItemsIdPath  == <<"/", "i", "t", "e", "m", "s", "/", "{", "i", "d", "}">>

GET    == <<"G", "E", "T">>
POST   == <<"P", "O", "S", "T">>
PUT    == <<"P", "U", "T">>
DELETE == <<"D", "E", "L", "E", "T", "E">>
PATCH  == <<"P", "A", "T", "C", "H">>

Methods == {GET, POST, PUT, DELETE, PATCH}

idName      == <<"i", "d">>
limitName   == <<"l", "i", "m", "i", "t">>
verboseName == <<"v", "e", "r", "b", "o", "s", "e">>
requestBody == <<"r", "e", "q", "u", "e", "s", "t", "B", "o", "d", "y">>

limitParam == <<"l", "i", "m", "i", "t", "P", "a", "r", "a", "m">>
idParam    == <<"i", "d", "P", "a", "r", "a", "m">>

components == <<"c", "o", "m", "p", "o", "n", "e", "n", "t", "s">>
parameters == <<"p", "a", "r", "a", "m", "e", "t", "e", "r", "s">>
schemas    == <<"s", "c", "h", "e", "m", "a", "s">>

RefPrefix == <<"#", "/">> \o components \o <<"/">> \o parameters \o <<"/">>

RefLimit     == RefPrefix \o limitParam
RefId        == RefPrefix \o idParam
RefMissing   == RefPrefix \o <<"n", "o", "n", "e">>
RefFive      == RefPrefix \o limitParam \o <<"/", "x">>
RefThree     == <<"#", "/">> \o components \o <<"/">> \o limitParam
RefSchemas   == <<"#", "/">> \o components \o <<"/">> \o schemas \o <<"/">> \o limitParam
RefNoHash    == <<"/">> \o components \o <<"/">> \o parameters \o <<"/">> \o limitParam
RefOtherDoc  == <<"x", "#", "/">> \o components \o <<"/">> \o parameters \o <<"/">> \o limitParam
RefWrongRoot == <<"#", "/">> \o parameters \o <<"/">> \o parameters \o <<"/">> \o limitParam
RefBare      == limitParam

Refs == {RefLimit, RefId, RefMissing, RefFive, RefThree, RefSchemas, RefNoHash,
         RefOtherDoc, RefWrongRoot, RefBare}

----
(* net/url: escaping *)

\* The printable ASCII characters; AsciiChars[i] has code 31 + i.  The
\* double quote, backslash and backquote are written DQUOTE, BACKSLASH and
\* BACKTICK.
AsciiChars ==
  <<" ", "!", "DQUOTE", "#", "$", "%", "&", "'", "(", ")", "*", "+", ",", "-", ".", "/",
    "0", "1", "2", "3", "4", "5", "6", "7", "8", "9", ":", ";", "<", "=", ">", "?",
    "@", "A", "B", "C", "D", "E", "F", "G", "H", "I", "J", "K", "L", "M", "N", "O",
    "P", "Q", "R", "S", "T", "U", "V", "W", "X", "Y", "Z", "[", "BACKSLASH", "]", "^", "_",
    "BACKTICK", "a", "b", "c", "d", "e", "f", "g", "h", "i", "j", "k", "l", "m", "n", "o",
    "p", "q", "r", "s", "t", "u", "v", "w", "x", "y", "z", "{", "|", "}", "~">>

Code(c) == 31 + (CHOOSE i \in DOMAIN AsciiChars : AsciiChars[i] = c)

CharOf(n) == AsciiChars[n - 31]

Digits == <<"0", "1", "2", "3", "4", "5", "6", "7", "8", "9">>

UpperHex == Digits \o <<"A", "B", "C", "D", "E", "F">>
LowerHex == Digits \o <<"a", "b", "c", "d", "e", "f">>

ishex(c) == c \in Range(UpperHex) \cup Range(LowerHex)

unhex(c) ==
    IF c \in Range(UpperHex)
    THEN (CHOOSE i \in DOMAIN UpperHex : UpperHex[i] = c) - 1
    ELSE (CHOOSE i \in DOMAIN LowerHex : LowerHex[i] = c) - 1

Alnum == Range(UpperLetters) \cup Range(LowerLetters) \cup Range(Digits)

\* shouldEscape(c, mode) for the modes the executor uses.
shouldEscape(c, mode) ==
    IF c \in Alnum THEN FALSE
    ELSE IF c \in {"-", "_", ".", "~"} THEN FALSE
    ELSE IF c \in {"$", "&", "+", ",", "/", ":", ";", "=", "?", "@"}
         THEN IF mode = "encodePath" THEN c = "?"
              ELSE IF mode = "encodePathSegment" THEN c \in {"/", ";", ",", "?"}
              ELSE TRUE
    ELSE TRUE

\* An escape that leaves braces alone, as if "{" and "}" were unreserved.
RECURSIVE escapeKeepBraces(_, _)
escapeKeepBraces(s, mode) ==
    IF s = <<>> THEN <<>>
    ELSE LET c == Head(s)
         IN  (IF c \notin {"{", "}"} /\ shouldEscape(c, mode)
              THEN IF c = " " /\ mode = "encodeQueryComponent"
                   THEN <<"+">>
                   ELSE <<"%", UpperHex[(Code(c) \div 16) + 1], UpperHex[(Code(c) % 16) + 1]>>
              ELSE <<c>>)
             \o escapeKeepBraces(Tail(s), mode)

\* escape(s, mode): percent-encoding with upper-case hex digits.
RECURSIVE escape(_, _)
escape(s, mode) ==
    IF s = <<>> THEN <<>>
    ELSE LET c == Head(s)
         IN  (IF shouldEscape(c, mode)
              THEN IF c = " " /\ mode = "encodeQueryComponent"
                   THEN <<"+">>
                   ELSE <<"%", UpperHex[(Code(c) \div 16) + 1], UpperHex[(Code(c) % 16) + 1]>>
              ELSE <<c>>)
             \o escape(Tail(s), mode)

\* Whether every "%" of s starts a valid escape (unescape's error check).
RECURSIVE validEscapes(_)
validEscapes(s) ==
    IF s = <<>> THEN TRUE
    ELSE IF Head(s) = "%"
         THEN /\ Len(s) >= 3 /\ ishex(s[2]) /\ ishex(s[3])
              /\ validEscapes(SubSeq(s, 4, Len(s)))
         ELSE validEscapes(Tail(s))

\* unescape(s, mode) for a string with valid escapes.
RECURSIVE unescape(_, _)
unescape(s, mode) ==
    IF s = <<>> THEN <<>>
    ELSE IF Head(s) = "%"
         THEN <<CharOf(unhex(s[2]) * 16 + unhex(s[3]))>> \o unescape(SubSeq(s, 4, Len(s)), mode)
         ELSE IF Head(s) = "+" /\ mode = "encodeQueryComponent"
              THEN <<" ">> \o unescape(Tail(s), mode)
              ELSE <<Head(s)>> \o unescape(Tail(s), mode)

\* validEncoded(s, mode)
validEncoded(s, mode) ==
    \A i \in DOMAIN s :
        \/ s[i] \in {"!", "$", "&", "'", "(", ")", "*", "+", ",", ";", "=", ":", "@",
                     "[", "]", "%"}
        \/ ~shouldEscape(s[i], mode)

PathEscape(s) == escape(s, "encodePathSegment")

QueryEscape(s) == escape(s, "encodeQueryComponent")

----
(* net/url, path: URL parsing, printing and joining *)

\* strings.Index for a one-character separator: 0 when absent.
IndexOf(s, c) ==
    IF c \in Range(s) THEN CHOOSE i \in DOMAIN s : s[i] = c /\ \A j \in 1..(i - 1) : s[j] # c
    ELSE 0

\* strings.Cut(s, c): the parts before and after the first c.
CutBefore(s, c) == IF IndexOf(s, c) = 0 THEN s ELSE SubSeq(s, 1, IndexOf(s, c) - 1)
CutAfter(s, c)  == IF IndexOf(s, c) = 0 THEN <<>> ELSE SubSeq(s, IndexOf(s, c) + 1, Len(s))

\* A url.URL without user, opaque part and fragment.
URL(scheme, host, p, rawPath, rawQuery) ==
    [Scheme |-> scheme, Host |-> host, Path |-> p, RawPath |-> rawPath, RawQuery |-> rawQuery]

\* URL.setPath(p), for p with valid escapes.
setPath(u, p) ==
    LET decoded == unescape(p, "encodePath")
    IN  [u EXCEPT !.Path = decoded,
                  !.RawPath = IF escape(decoded, "encodePath") = p THEN <<>> ELSE p]

\* URL.EscapedPath()
EscapedPath(u) ==
    IF /\ u.RawPath # <<>>
       /\ validEncoded(u.RawPath, "encodePath")
       /\ validEscapes(u.RawPath)
       /\ unescape(u.RawPath, "encodePath") = u.Path
    THEN u.RawPath
    ELSE IF u.Path = <<"*">> THEN <<"*">>
    ELSE escape(u.Path, "encodePath")

\* getScheme(rawURL): the length of the scheme, 0 when there is none, -1 for
\* the "missing protocol scheme" error.
RECURSIVE schemeLen(_, _)
schemeLen(s, i) ==
    IF i > Len(s) THEN 0
    ELSE IF s[i] \in Range(UpperLetters) \cup Range(LowerLetters) THEN schemeLen(s, i + 1)
    ELSE IF s[i] \in Range(Digits) \cup {"+", "-", "."}
         THEN IF i = 1 THEN 0 ELSE schemeLen(s, i + 1)
    ELSE IF s[i] = ":" THEN (IF i = 1 THEN -1 ELSE i - 1)
    ELSE 0

\* url.Parse(rawURL) for URLs without user information, opaque part or a
\* bare trailing "?": [err, url].
Parse(rawURL) ==
    LET noFrag   == CutBefore(rawURL, "#")
        n        == schemeLen(noFrag, 1)
        scheme   == IF n > 0 THEN ToLower(SubSeq(noFrag, 1, n)) ELSE <<>>
        afterSch == IF n > 0 THEN SubSeq(noFrag, n + 2, Len(noFrag)) ELSE noFrag
        rest     == CutBefore(afterSch, "?")
        rawQuery == CutAfter(afterSch, "?")
        hasAuth  == HasPrefix(rest, <<"/", "/">>) /\ (scheme # <<>> \/ ~HasPrefix(rest, <<"/", "/", "/">>))
        auth     == SubSeq(rest, 3, Len(rest))
        host     == IF hasAuth THEN CutBefore(auth, "/") ELSE <<>>
        p        == IF hasAuth
                    THEN SubSeq(auth, Len(host) + 1, Len(auth))
                    ELSE rest
        colonErr == /\ ~HasPrefix(rest, <<"/">>) /\ scheme = <<>>
                    /\ ":" \in Range(CutBefore(rest, "/"))
        bad      == n = -1 \/ colonErr \/ ~validEscapes(p) \/ ~validEscapes(host)
    IN  IF bad
        THEN [err |-> TRUE, url |-> URL(<<>>, <<>>, <<>>, <<>>, <<>>)]
        ELSE [err |-> FALSE, url |-> setPath(URL(scheme, host, <<>>, <<>>, rawQuery), p)]

\* URL.String()
String(u) ==
    LET p == EscapedPath(u)
    IN  (IF u.Scheme # <<>> THEN u.Scheme \o <<":">> ELSE <<>>)
        \o (IF (u.Scheme # <<>> \/ u.Host # <<>>) /\ (u.Host # <<>> \/ u.Path # <<>>)
            THEN <<"/", "/">> ELSE <<>>)
        \o u.Host
        \o (IF p # <<>> /\ p[1] # "/" /\ u.Host # <<>> THEN <<"/">> ELSE <<>>)
        \o p
        \o (IF u.RawQuery # <<>> THEN <<"?">> \o u.RawQuery ELSE <<>>)

\* path.Clean for a rooted path: the segments that remain.
RECURSIVE cleanSegments(_, _)
cleanSegments(segs, kept) ==
    IF segs = <<>> THEN kept
    ELSE IF Head(segs) = <<>> \/ Head(segs) = <<".">> THEN cleanSegments(Tail(segs), kept)
    ELSE IF Head(segs) = <<".", ".">>
         THEN cleanSegments(Tail(segs),
                            IF kept = <<>> THEN kept ELSE SubSeq(kept, 1, Len(kept) - 1))
    ELSE cleanSegments(Tail(segs), Append(kept, Head(segs)))

RECURSIVE joinSegments(_)
joinSegments(segs) ==
    IF segs = <<>> THEN <<>> ELSE <<"/">> \o Head(segs) \o joinSegments(Tail(segs))

Clean(p) ==
    LET segs == cleanSegments(Split(p, "/"), <<>>)
    IN  IF segs = <<>> THEN <<"/">> ELSE joinSegments(segs)

\* URL.JoinPath(elem)
JoinPath(u, elem) ==
    LET first  == EscapedPath(u)
        rooted == HasPrefix(first, <<"/">>)
        joined == Clean((IF rooted THEN first ELSE <<"/">> \o first) \o <<"/">> \o elem)
        p0     == IF rooted THEN joined ELSE Tail(joined)
        p1     == IF HasSuffix(elem, <<"/">>) /\ ~HasSuffix(p0, <<"/">>)
                  THEN p0 \o <<"/">> ELSE p0
    IN  setPath(u, p1)

----
(* net/url: query values *)

\* Byte-wise order of strings.
RECURSIVE StrLess(_, _)
StrLess(a, b) ==
    IF b = <<>> THEN FALSE
    ELSE IF a = <<>> THEN TRUE
    ELSE IF Head(a) = Head(b) THEN StrLess(Tail(a), Tail(b))
    ELSE Code(Head(a)) < Code(Head(b))

\* The keys of a map in sorted order.
SortedKeys(S) ==
    CHOOSE s \in [1..Cardinality(S) -> S] :
        \A i, j \in 1..Cardinality(S) : i < j => StrLess(s[i], s[j])

\* url.ParseQuery, errors skipped as URL.Query() does: a map from key to the
\* list of its values.
RECURSIVE parseQuery(_, _)
parseQuery(pairs, m) ==
    IF pairs = <<>> THEN m
    ELSE LET pair  == Head(pairs)
             rawK  == CutBefore(pair, "=")
             rawV  == CutAfter(pair, "=")
             skip  == \/ ";" \in Range(pair) \/ pair = <<>>
                      \/ ~validEscapes(rawK) \/ ~validEscapes(rawV)
             k     == unescape(rawK, "encodeQueryComponent")
             v     == unescape(rawV, "encodeQueryComponent")
         IN  parseQuery(Tail(pairs),
                        IF skip THEN m
                        ELSE MapSet(m, k, IF k \in DOMAIN m THEN Append(m[k], v) ELSE <<v>>))

Query(u) == parseQuery(Split(u.RawQuery, "&"), <<>>)

\* Values.Set(key, value)
ValuesSet(m, k, v) == MapSet(m, k, <<v>>)

RECURSIVE encodeValues(_, _)
encodeValues(k, vs) ==
    IF vs = <<>> THEN <<>>
    ELSE <<QueryEscape(k) \o <<"=">> \o QueryEscape(Head(vs))>> \o encodeValues(k, Tail(vs))

RECURSIVE joinWith(_, _)
joinWith(parts, sep) ==
    IF parts = <<>> THEN <<>>
    ELSE IF Len(parts) = 1 THEN Head(parts)
    ELSE Head(parts) \o sep \o joinWith(Tail(parts), sep)

\* Values.Encode(): key=value pairs sorted by key.
Encode(m) ==
    LET keys == SortedKeys(DOMAIN m)
    IN  joinWith(Concat([i \in DOMAIN keys |-> encodeValues(keys[i], m[keys[i]])]), <<"&">>)

----
(* Schema model: apiai.go, types Schema, Parameter, Components *)

NilMap == [isnil |-> TRUE, m |-> <<>>]

MakeMap(f) == [isnil |-> FALSE, m |-> f]

Schema(type, description, properties, required, format) ==
    [Type |-> type, Properties |-> properties, Required |-> required,
     Format |-> format, Description |-> description]

Parameter(pname, in, description, required, schema, ref) ==
    [Name |-> pname, In |-> in, Description |-> description,
     Required |-> required, Schema |-> schema, Ref |-> ref]

IntegerSchema == Schema("integer", "", NilMap, <<>>, "int32")
StringSchema  == Schema("string", "a string", NilMap, <<>>, "")

----
(* apiai.go: resolveParameterRef *)

\* A resolver that accepts any reference with at least four segments and
\* does not look at the first three.
resolveParameterRefAnyShape(p, spec) ==
    IF p.Ref # <<>> /\ spec.Components # <<>> /\ ~spec.Components[1].Parameters.isnil
    THEN LET refParts == Split(p.Ref, "/")
             table    == spec.Components[1].Parameters.m
         IN  IF Len(refParts) >= 4 /\ refParts[4] \in DOMAIN table
             THEN table[refParts[4]]
             ELSE p
    ELSE p

\* A resolver that copies the referenced parameter but keeps the stub's
\* reference string.
resolveParameterRefKeepRef(p, spec) ==
    IF p.Ref # <<>> /\ spec.Components # <<>> /\ ~spec.Components[1].Parameters.isnil
    THEN LET refParts == Split(p.Ref, "/")
             table    == spec.Components[1].Parameters.m
         IN  IF /\ Len(refParts) = 4
                /\ refParts[1] = <<"#">>
                /\ refParts[2] = components
                /\ refParts[3] = parameters
                /\ refParts[4] \in DOMAIN table
             THEN [table[refParts[4]] EXCEPT !.Ref = p.Ref]
             ELSE p
    ELSE p

resolveParameterRef(p, spec) ==
    IF p.Ref # <<>> /\ spec.Components # <<>> /\ ~spec.Components[1].Parameters.isnil
    THEN LET refParts == Split(p.Ref, "/")
             table    == spec.Components[1].Parameters.m
         IN  IF /\ Len(refParts) = 4
                /\ refParts[1] = <<"#">>
                /\ refParts[2] = components
                /\ refParts[3] = parameters
             THEN LET paramName == refParts[4]
                  IN  IF paramName \in DOMAIN table
                      THEN table[paramName]
                      ELSE p
             ELSE p
    ELSE p

----
(* apiai.go: sanitizeFunctionName *)

\* A name generator that forgets to lower-case the result.
sanitizeFunctionNameNoLower(p, m) ==
    LET n1 == ReplaceAll(p, <<"/">>, <<"_">>)
        n2 == ReplaceAll(n1, <<"{">>, <<>>)
        n3 == ReplaceAll(n2, <<"}">>, <<>>)
    IN  m \o n3

sanitizeFunctionName(p, m) ==
    LET n1 == ReplaceAll(p, <<"/">>, <<"_">>)
        n2 == ReplaceAll(n1, <<"{">>, <<>>)
        n3 == ReplaceAll(n2, <<"}">>, <<>>)
        n4 == m \o n3
    IN  ToLower(n4)

----
(* apiai.go: convertSchemaToProperty *)

\* A conversion that copies type and description but does not descend into
\* the properties.
convertSchemaToPropertyShallow(schema) ==
    IF schema = <<>>
    THEN Schema("string", "", NilMap, <<>>, "")
    ELSE Schema(schema[1].Type, schema[1].Description, NilMap, <<>>, "")

\* A conversion that writes the type in front of the description.
RECURSIVE convertSchemaToPropertyTypedDescription(_)
convertSchemaToPropertyTypedDescription(schema) ==
    IF schema = <<>>
    THEN Schema("string", "", NilMap, <<>>, "")
    ELSE LET s == schema[1]
             d == s.Type \o ": " \o s.Description
         IN  IF s.Properties.isnil
             THEN Schema(s.Type, d, NilMap, <<>>, "")
             ELSE Schema(s.Type, d,
                         MakeMap([n \in DOMAIN s.Properties.m |->
                                     <<convertSchemaToPropertyTypedDescription(s.Properties.m[n])>>]),
                         IF Len(s.Required) > 0 THEN s.Required ELSE <<>>,
                         "")

RECURSIVE convertSchemaToProperty(_)
convertSchemaToProperty(schema) ==
    IF schema = <<>>
    THEN Schema("string", "", NilMap, <<>>, "")
    ELSE LET s == schema[1]
         IN  IF s.Properties.isnil
             THEN Schema(s.Type, s.Description, NilMap, <<>>, "")
             ELSE Schema(s.Type, s.Description,
                         MakeMap([n \in DOMAIN s.Properties.m |->
                                     <<convertSchemaToProperty(s.Properties.m[n])>>]),
                         IF Len(s.Required) > 0 THEN s.Required ELSE <<>>,
                         "")

----
(* apiai.go: types Operation, PathItem, OpenAPISpec, FunctionDefinition *)

Operation(summary, description, params, body) ==
    [Summary |-> summary, Description |-> description,
     Parameters |-> params, RequestBody |-> body]

PathItem(get, post, put, delete, patch) ==
    [Get |-> get, Post |-> post, Put |-> put, Delete |-> delete, Patch |-> patch]

OpenAPISpec(paths, comps) == [Paths |-> paths, Components |-> comps]

\* A getOperations that leaves out the PATCH operation.
getOperationsNoPatch(p) ==
    LET present == (IF p.Get # <<>> THEN {GET} ELSE {})
                   \cup (IF p.Post # <<>> THEN {POST} ELSE {})
                   \cup (IF p.Put # <<>> THEN {PUT} ELSE {})
                   \cup (IF p.Delete # <<>> THEN {DELETE} ELSE {})
    IN  [m \in present |->
            IF m = GET THEN p.Get
            ELSE IF m = POST THEN p.Post
            ELSE IF m = PUT THEN p.Put
            ELSE p.Delete]

\* PathItem.getOperations: the map from method name to the non-nil operations.
getOperations(p) ==
    LET present == (IF p.Get # <<>> THEN {GET} ELSE {})
                   \cup (IF p.Post # <<>> THEN {POST} ELSE {})
                   \cup (IF p.Put # <<>> THEN {PUT} ELSE {})
                   \cup (IF p.Delete # <<>> THEN {DELETE} ELSE {})
                   \cup (IF p.Patch # <<>> THEN {PATCH} ELSE {})
    IN  [m \in present |->
            IF m = GET THEN p.Get
            ELSE IF m = POST THEN p.Post
            ELSE IF m = PUT THEN p.Put
            ELSE IF m = DELETE THEN p.Delete
            ELSE p.Patch]

----
(* apiai.go: ConvertOpenAPIToFunctions *)

\* State of the parameter loop: params.Properties, params.Required,
\* pathParams, queryParams.
EmptyParams == [Properties |-> <<>>, Required |-> <<>>,
                pathParams |-> <<>>, queryParams |-> <<>>]

\* A loop body that surfaces every parameter that has a location at all,
\* header and cookie parameters included.
paramStepAnyLocation(acc, resolvedParam) ==
    IF resolvedParam.In # ""
    THEN LET prop == [convertSchemaToProperty(resolvedParam.Schema)
                        EXCEPT !.Description = resolvedParam.Description]
         IN  [Properties  |-> MapSet(acc.Properties, resolvedParam.Name, <<prop>>),
              Required    |-> IF resolvedParam.Required
                              THEN Append(acc.Required, resolvedParam.Name)
                              ELSE acc.Required,
              pathParams  |-> IF resolvedParam.In = "path"
                              THEN Append(acc.pathParams, resolvedParam.Name)
                              ELSE acc.pathParams,
              queryParams |-> IF resolvedParam.In = "path"
                              THEN acc.queryParams
                              ELSE Append(acc.queryParams, resolvedParam.Name)]
    ELSE acc

\* A loop body that records every surfaced parameter as a path parameter.
paramStepAllPath(acc, resolvedParam) ==
    IF resolvedParam.In = "path" \/ resolvedParam.In = "query"
    THEN LET prop == [convertSchemaToProperty(resolvedParam.Schema)
                        EXCEPT !.Description = resolvedParam.Description]
         IN  [Properties  |-> MapSet(acc.Properties, resolvedParam.Name, <<prop>>),
              Required    |-> IF resolvedParam.Required
                              THEN Append(acc.Required, resolvedParam.Name)
                              ELSE acc.Required,
              pathParams  |-> Append(acc.pathParams, resolvedParam.Name),
              queryParams |-> acc.queryParams]
    ELSE acc

\* A loop body that records the name of every surfaced parameter and gives
\* a property to those that have a schema only.
paramStepTypedOnly(acc, resolvedParam) ==
    IF resolvedParam.In = "path" \/ resolvedParam.In = "query"
    THEN LET prop == [convertSchemaToProperty(resolvedParam.Schema)
                        EXCEPT !.Description = resolvedParam.Description]
         IN  [Properties  |-> IF resolvedParam.Schema # <<>>
                              THEN MapSet(acc.Properties, resolvedParam.Name, <<prop>>)
                              ELSE acc.Properties,
              Required    |-> IF resolvedParam.Required
                              THEN Append(acc.Required, resolvedParam.Name)
                              ELSE acc.Required,
              pathParams  |-> IF resolvedParam.In = "path"
                              THEN Append(acc.pathParams, resolvedParam.Name)
                              ELSE acc.pathParams,
              queryParams |-> IF resolvedParam.In = "path"
                              THEN acc.queryParams
                              ELSE Append(acc.queryParams, resolvedParam.Name)]
    ELSE acc

\* Body of the loop over op.Parameters, after reference resolution.
paramStep(acc, resolvedParam) ==
    IF resolvedParam.In = "path" \/ resolvedParam.In = "query"
    THEN LET prop == [convertSchemaToProperty(resolvedParam.Schema)
                        EXCEPT !.Description = resolvedParam.Description]
         IN  [Properties  |-> MapSet(acc.Properties, resolvedParam.Name, <<prop>>),
              Required    |-> IF resolvedParam.Required
                              THEN Append(acc.Required, resolvedParam.Name)
                              ELSE acc.Required,
              pathParams  |-> IF resolvedParam.In = "path"
                              THEN Append(acc.pathParams, resolvedParam.Name)
                              ELSE acc.pathParams,
              queryParams |-> IF resolvedParam.In = "path"
                              THEN acc.queryParams
                              ELSE Append(acc.queryParams, resolvedParam.Name)]
    ELSE acc

\* The loop over op.Parameters.
RECURSIVE convertParams(_, _, _)
convertParams(ps, spec, acc) ==
    IF ps = <<>> THEN acc
    ELSE convertParams(Tail(ps), spec,
                       paramStep(acc, resolveParameterRef(Head(ps), spec)))

\* A loop that looks at the media type visited first and at no other.
convertBodyFirstOnly(content, mts, props) ==
    IF mts = <<>> THEN props
    ELSE IF content[Head(mts)].Schema # <<>>
    THEN MapSet(props, requestBody, <<convertSchemaToProperty(content[Head(mts)].Schema)>>)
    ELSE props

\* The loop over op.RequestBody.Content, visited in the order mts.
RECURSIVE convertBody(_, _, _)
convertBody(content, mts, props) ==
    IF mts = <<>> THEN props
    ELSE LET mediaType == content[Head(mts)]
         IN  convertBody(content, Tail(mts),
                         IF mediaType.Schema # <<>>
                         THEN MapSet(props, requestBody,
                                     <<convertSchemaToProperty(mediaType.Schema)>>)
                         ELSE props)

\* A loop body that appends the line break and the description even when
\* the description is empty.
convertOperationAlwaysBreak(spec, p, m, op, mts) ==
    LET acc   == convertParams(op.Parameters, spec, EmptyParams)
        props == IF op.RequestBody # <<>>
                 THEN convertBody(op.RequestBody[1].Content, mts, acc.Properties)
                 ELSE acc.Properties
    IN  [Name        |-> sanitizeFunctionName(p, m),
         Description |-> op.Summary \o <<"\n">> \o op.Description,
         Parameters  |-> Schema("object", "", MakeMap(props), acc.Required, ""),
         OapiMethod  |-> m,
         OapiPath    |-> p,
         PathParams  |-> acc.pathParams,
         QueryParams |-> acc.queryParams]

\* Body of the loop over operations: the FunctionDefinition of one operation.
convertOperation(spec, p, m, op, mts) ==
    LET desc  == IF Len(op.Description) > 0
                 THEN op.Summary \o <<"\n">> \o op.Description
                 ELSE op.Summary
        acc   == convertParams(op.Parameters, spec, EmptyParams)
        props == IF op.RequestBody # <<>>
                 THEN convertBody(op.RequestBody[1].Content, mts, acc.Properties)
                 ELSE acc.Properties
    IN  [Name        |-> sanitizeFunctionName(p, m),
         Description |-> desc,
         Parameters  |-> Schema("object", "", MakeMap(props), acc.Required, ""),
         OapiMethod  |-> m,
         OapiPath    |-> p,
         PathParams  |-> acc.pathParams,
         QueryParams |-> acc.queryParams]

\* The operations of a document as (path, method) pairs.
Slots(spec) ==
    {sl \in (DOMAIN spec.Paths) \X Methods :
        sl[2] \in DOMAIN getOperations(spec.Paths[sl[1]])}

OpAt(spec, sl) == getOperations(spec.Paths[sl[1]])[sl[2]][1]

\* A conversion that keeps the first definition stored under a name.
RECURSIVE convertAllKeepFirst(_, _, _, _)
convertAllKeepFirst(spec, order, mts, fns) ==
    IF order = <<>> THEN fns
    ELSE LET sl      == Head(order)
             funcDef == convertOperation(spec, sl[1], sl[2], OpAt(spec, sl), mts[sl])
         IN  convertAllKeepFirst(spec, Tail(order), mts,
                                 IF funcDef.Name \in DOMAIN fns
                                 THEN fns
                                 ELSE MapSet(fns, funcDef.Name, funcDef))

\* functions[funcDef.Name] = funcDef, for the operations in iteration
\* order; mts gives the iteration order over each operation's media types.
RECURSIVE convertAll(_, _, _, _)
convertAll(spec, order, mts, fns) ==
    IF order = <<>> THEN fns
    ELSE LET sl      == Head(order)
             funcDef == convertOperation(spec, sl[1], sl[2], OpAt(spec, sl), mts[sl])
         IN  convertAll(spec, Tail(order), mts, MapSet(fns, funcDef.Name, funcDef))

\* A conversion whose pathParams and queryParams lists are declared outside
\* the loop over the operations, so that every definition also lists the
\* names collected for the operations visited before it.
RECURSIVE convertAllSharedLists(_, _, _, _, _)
convertAllSharedLists(spec, order, mts, fns, seen) ==
    IF order = <<>> THEN fns
    ELSE LET sl      == Head(order)
             own     == convertOperation(spec, sl[1], sl[2], OpAt(spec, sl), mts[sl])
             funcDef == [own EXCEPT !.PathParams  = seen.pathParams \o @,
                                    !.QueryParams = seen.queryParams \o @]
         IN  convertAllSharedLists(spec, Tail(order), mts,
                                   MapSet(fns, funcDef.Name, funcDef),
                                   [pathParams  |-> funcDef.PathParams,
                                    queryParams |-> funcDef.QueryParams])

ConvertOpenAPIToFunctionsSharedLists(spec, order, mts) ==
    convertAllSharedLists(spec, order, mts, <<>>,
                          [pathParams |-> <<>>, queryParams |-> <<>>])

ConvertOpenAPIToFunctions(spec, order, mts) == convertAll(spec, order, mts, <<>>)

\* The orders in which Go may iterate over a map's keys.
Perms(S) == {s \in [1..Cardinality(S) -> S] : \A i, j \in 1..Cardinality(S) : s[i] = s[j] => i = j}

\* Iteration orders of the nested loops over spec.Paths and getOperations():
\* the operations of one path are visited together.
Orders(spec) ==
    {o \in Perms(Slots(spec)) :
        \A i, j, k \in DOMAIN o : (i < j /\ j < k /\ o[i][1] = o[k][1]) => o[j][1] = o[i][1]}

ContentKeys(op) == IF op.RequestBody = <<>> THEN {} ELSE DOMAIN op.RequestBody[1].Content

MediaOrders(spec) ==
    {f \in [Slots(spec) -> UNION {Perms(ContentKeys(OpAt(spec, sl))) : sl \in Slots(spec)}] :
        \A sl \in Slots(spec) : f[sl] \in Perms(ContentKeys(OpAt(spec, sl)))}

----
(* fmt.Sprint and json.Marshal of argument values *)

\* A value of type any as decoded from JSON: nil, a string, a number, a
\* boolean or an object with string fields (fields: <<key, value>> pairs in
\* key order); and one a Go caller can put into the map that JSON cannot
\* express, the float NaN.
NilValue   == [kind |-> "nil", s |-> <<>>, n |-> 0, fields |-> <<>>]
StrValue(s) == [kind |-> "string", s |-> s, n |-> 0, fields |-> <<>>]
IntValue(n) == [kind |-> "int", s |-> <<>>, n |-> n, fields |-> <<>>]
BoolValue(b) == [kind |-> "bool", s |-> <<>>, n |-> IF b THEN 1 ELSE 0, fields |-> <<>>]
MapValue(fields) == [kind |-> "map", s |-> <<>>, n |-> 0, fields |-> fields]
NaNValue   == [kind |-> "nan", s |-> <<>>, n |-> 0, fields |-> <<>>]

RECURSIVE Decimal(_)
Decimal(n) ==
    IF n < 0 THEN <<"-">> \o Decimal(0 - n)
    ELSE IF n < 10 THEN <<Digits[n + 1]>>
    ELSE Decimal(n \div 10) \o <<Digits[(n % 10) + 1]>>

\* fmt.Sprint(v)
Sprint(v) ==
    IF v.kind = "nil" THEN <<"<", "n", "i", "l", ">">>
    ELSE IF v.kind = "string" THEN v.s
    ELSE IF v.kind = "int" THEN Decimal(v.n)
    ELSE IF v.kind = "bool"
         THEN (IF v.n = 1 THEN <<"t", "r", "u", "e">> ELSE <<"f", "a", "l", "s", "e">>)
    ELSE IF v.kind = "nan" THEN <<"N", "a", "N">>
    ELSE <<"m", "a", "p", "[">>
         \o joinWith([i \in DOMAIN v.fields |-> v.fields[i][1] \o <<":">> \o v.fields[i][2]],
                     <<" ">>)
         \o <<"]">>

Quoted(s) == <<"DQUOTE">> \o s \o <<"DQUOTE">>

\* json.Marshal(v) returns an UnsupportedValueError.
marshalFails(v) == v.kind = "nan"

\* json.Marshal(v) for values it supports whose strings need no escaping.
Marshal(v) ==
    IF v.kind = "nil" THEN <<"n", "u", "l", "l">>
    ELSE IF v.kind = "string" THEN Quoted(v.s)
    ELSE IF v.kind = "int" THEN Decimal(v.n)
    ELSE IF v.kind = "bool"
         THEN (IF v.n = 1 THEN <<"t", "r", "u", "e">> ELSE <<"f", "a", "l", "s", "e">>)
    ELSE <<"{">>
         \o joinWith([i \in DOMAIN v.fields |->
                         Quoted(v.fields[i][1]) \o <<":">> \o Quoted(v.fields[i][2])],
                     <<",">>)
         \o <<"}">>

\* args[k] on a map[string]any: the zero value nil when the key is absent.
ArgAt(args, k) == IF k \in DOMAIN args THEN args[k] ELSE NilValue

----
(* client.go: AuthConfig, AuthRoundTripper, NewHTTPClient *)

AuthConfig(type, username, password, keyName, keyValue, token, tokenSource, cookies) ==
    [Type |-> type, Username |-> username, Password |-> password,
     APIKeyName |-> keyName, APIKeyValue |-> keyValue, Token |-> token,
     TokenSource |-> tokenSource, Cookies |-> cookies]

\* http.Request as http.NewRequest makes it: the URL, the headers (name ->
\* list of values), the body (absent for http.NoBody) and the background
\* context.
Request(m, u, header, body) ==
    [Method |-> m, URL |-> u, Header |-> header, Body |-> body, Ctx |-> "background"]

\* Header.Set(key, value)
HeaderSet(h, k, v) == MapSet(h, k, <<v>>)

\* Request.AddCookie(c): appended to the Cookie header line.
AddCookie(h, c) ==
    MapSet(h, "Cookie", <<(IF "Cookie" \in DOMAIN h THEN h["Cookie"][1] ELSE <<>>) \o <<c>>>>)

RECURSIVE addCookies(_, _)
addCookies(h, cs) == IF cs = <<>> THEN h ELSE addCookies(AddCookie(h, Head(cs)), Tail(cs))

\* req.Clone(req.Context()): a deep copy of the request, headers included,
\* that carries the context ctx.
Clone(r, ctx) == [r EXCEPT !.Ctx = ctx]

\* A request object shared between the caller and the round tripper: what
\* is written to the decorated request shows in the caller's request.
callerRequestShared(r, decorated) == decorated

\* The caller's request once RoundTrip has returned: line 59 rebinds req to
\* the clone, so every later write goes to the clone.
callerRequest(r, decorated) == r

\* A bearer case that adds its value next to an Authorization header the
\* request already has.
bearerAuthAdd(c, r) ==
    IF c.Token # ""
    THEN [r EXCEPT !.Header =
             MapSet(@, "Authorization",
                    (IF "Authorization" \in DOMAIN @ THEN @["Authorization"] ELSE <<>>)
                        \o <<<<"Bearer ", c.Token>>>>)]
    ELSE r

\* case AuthTypeBearer
bearerAuth(c, r) ==
    IF c.Token # ""
    THEN [r EXCEPT !.Header = HeaderSet(@, "Authorization", <<"Bearer ", c.Token>>)]
    ELSE r

\* An oauth2 case that prefers the static token to the token source.
oauth2AuthStaticFirst(c, r, tok) ==
    IF c.Token # ""
    THEN [err |-> "", asked |-> FALSE,
          req |-> [r EXCEPT !.Header = HeaderSet(@, "Authorization", <<"Bearer ", c.Token>>)]]
    ELSE IF c.TokenSource
    THEN IF tok = <<>>
         THEN [err |-> "failed to get OAuth2 token", asked |-> TRUE, req |-> r]
         ELSE [err |-> "", asked |-> TRUE,
               req |-> [r EXCEPT !.Header = HeaderSet(@, "Authorization", <<"Bearer ", tok[1]>>)]]
    ELSE [err |-> "OAuth2 requires either Token or TokenSource", asked |-> FALSE, req |-> r]

\* case AuthTypeOAuth2: [err, asked, req]; asked tells whether
\* TokenSource.Token() was called, tok is its outcome (<<>> for an error,
\* else <<access token>>).  token.SetAuthHeader writes the header of a
\* bearer token.
oauth2Auth(c, r, tok) ==
    IF c.TokenSource
    THEN IF tok = <<>>
         THEN [err |-> "failed to get OAuth2 token", asked |-> TRUE, req |-> r]
         ELSE [err |-> "", asked |-> TRUE,
               req |-> [r EXCEPT !.Header = HeaderSet(@, "Authorization", <<"Bearer ", tok[1]>>)]]
    ELSE IF c.Token # ""
    THEN [err |-> "", asked |-> FALSE,
          req |-> [r EXCEPT !.Header = HeaderSet(@, "Authorization", <<"Bearer ", c.Token>>)]]
    ELSE [err |-> "OAuth2 requires either Token or TokenSource", asked |-> FALSE, req |-> r]

\* A default case that forwards the request as it is.
defaultCaseForward(c, r) == [err |-> "", asked |-> FALSE, req |-> r]

\* default: of the switch
defaultCase(c, r) == [err |-> "unsupported auth type", asked |-> FALSE, req |-> r]

\* The switch over art.config.Type, applied to the clone: [err, asked, req].
authSwitch(c, r, tok) ==
    IF c.Type = "basic"
    THEN [err |-> "", asked |-> FALSE,
          req |-> [r EXCEPT !.Header = HeaderSet(@, "Authorization",
                                                <<"Basic ", c.Username, ":", c.Password>>)]]
    ELSE IF c.Type = "apikey-header"
    THEN [err |-> "", asked |-> FALSE,
          req |-> IF c.APIKeyName # "" /\ c.APIKeyValue # ""
                  THEN [r EXCEPT !.Header = HeaderSet(@, c.APIKeyName, <<c.APIKeyValue>>)]
                  ELSE r]
    ELSE IF c.Type = "apikey-cookie"
    THEN [err |-> "", asked |-> FALSE,
          req |-> IF c.APIKeyName # "" /\ c.APIKeyValue # ""
                  THEN [r EXCEPT !.Header = AddCookie(@, <<c.APIKeyName, c.APIKeyValue>>)]
                  ELSE r]
    ELSE IF c.Type = "bearer"
    THEN [err |-> "", asked |-> FALSE, req |-> bearerAuth(c, r)]
    ELSE IF c.Type = "oauth2"
    THEN oauth2Auth(c, r, tok)
    ELSE IF c.Type = "cookie"
    THEN [err |-> "", asked |-> FALSE, req |-> [r EXCEPT !.Header = addCookies(@, c.Cookies)]]
    ELSE defaultCase(c, r)

\* A round tripper that hands the request to the wrapped transport whatever
\* the switch returned.
RoundTripAlwaysSend(config, r, tok) ==
    IF config = <<>> \/ config[1].Type = "none"
    THEN [err |-> "", asked |-> FALSE, req |-> r, orig |-> r, sends |-> 1]
    ELSE LET sw == authSwitch(config[1], Clone(r, r.Ctx), tok)
         IN  [err |-> sw.err, asked |-> sw.asked, req |-> sw.req,
              orig |-> callerRequest(r, sw.req), sends |-> 1]

\* AuthRoundTripper.RoundTrip up to the call of the wrapped transport:
\* [err, asked, req, orig, sends], req being the request handed to the
\* transport, orig the caller's request after the call and sends the number
\* of calls of art.transport.RoundTrip: the one of line 56, or the one of
\* line 108 that a return inside the switch skips.
RoundTrip(config, r, tok) ==
    IF config = <<>> \/ config[1].Type = "none"
    THEN [err |-> "", asked |-> FALSE, req |-> r, orig |-> r, sends |-> 1]
    ELSE LET sw == authSwitch(config[1], Clone(r, r.Ctx), tok)
         IN  [err |-> sw.err, asked |-> sw.asked, req |-> sw.req,
              orig |-> callerRequest(r, sw.req),
              sends |-> IF sw.err # "" THEN 0 ELSE 1]

\* A constructor that treats a nil configuration as "no authentication".
NewHTTPClientNilSafe(config) ==
    [panic |-> FALSE,
     client |-> <<[Transport |-> [config |-> config],
                   Jar |-> config # <<>> /\ config[1].Type \in {"apikey-cookie", "cookie"}]>>]

\* A constructor that never attaches a cookie jar.
NewHTTPClientNoJar(config) ==
    IF config = <<>>
    THEN [panic |-> TRUE, client |-> <<>>]
    ELSE [panic |-> FALSE,
          client |-> <<[Transport |-> [config |-> config], Jar |-> FALSE]>>]

\* NewHTTPClient(config): reads config.Type, so a nil config is a nil pointer
\* dereference.
NewHTTPClient(config) ==
    IF config = <<>>
    THEN [panic |-> TRUE, client |-> <<>>]
    ELSE [panic |-> FALSE,
          client |-> <<[Transport |-> [config |-> config],
                        Jar |-> config[1].Type \in {"apikey-cookie", "cookie"}]>>]

\* NewAPIClient(baseURL, authConfig): [panic, err, client]
NewAPIClientResult(rawURL, config) ==
    LET parsed == Parse(rawURL)
    IN  IF parsed.err
        THEN [panic |-> FALSE, err |-> "parse", client |-> <<>>]
        ELSE LET cli == NewHTTPClient(config)
             IN  IF cli.panic
                 THEN [panic |-> TRUE, err |-> "", client |-> <<>>]
                 ELSE [panic |-> FALSE, err |-> "",
                       client |-> <<[BaseURL |-> parsed.url, HTTPClient |-> cli.client[1]]>>]

----
(* net/http and net/http/cookiejar: what http.Client.Do does around the    *)
(* transport of a client built by NewHTTPClient                            *)

\* A cookie of a response: name, value and Path attribute (<<>> when the
\* attribute is absent).  The jar maps <<name, path>> to the value; all
\* requests of the model go to one host over http, and cookies do not expire.
Cookie(n, v, p) == [Name |-> n, Value |-> v, Path |-> p]

\* cookiejar: defaultPath(path), the directory of the request path.
defaultPath(p) ==
    IF p = <<>> \/ p[1] # "/" THEN <<"/">>
    ELSE LET i == CHOOSE k \in DOMAIN p : p[k] = "/" /\ \A j \in (k + 1)..Len(p) : p[j] # "/"
         IN  IF i = 1 THEN <<"/">> ELSE SubSeq(p, 1, i - 1)

\* cookiejar: entry.pathMatch(requestPath)
pathMatch(requestPath, cookiePath) ==
    \/ requestPath = cookiePath
    \/ /\ HasPrefix(requestPath, cookiePath)
       /\ \/ cookiePath[Len(cookiePath)] = "/"
          \/ requestPath[Len(cookiePath) + 1] = "/"

\* The entries of keys, longest path first.
RECURSIVE byPathLength(_, _)
byPathLength(jr, keys) ==
    IF keys = {} THEN <<>>
    ELSE LET k == CHOOSE x \in keys : \A y \in keys : Len(y[2]) <= Len(x[2])
         IN  <<<<k[1], jr[k]>>>> \o byPathLength(jr, keys \ {k})

\* Jar.Cookies(u)
jarCookies(jr, u) ==
    LET p == IF u.Path = <<>> THEN <<"/">> ELSE u.Path
    IN  byPathLength(jr, {k \in DOMAIN jr : pathMatch(p, k[2])})

\* Jar.SetCookies(u, cookies)
RECURSIVE setCookies(_, _, _)
setCookies(jr, u, cs) ==
    IF cs = <<>> THEN jr
    ELSE LET c == Head(cs)
             p == IF c.Path = <<>> \/ c.Path[1] # "/" THEN defaultPath(u.Path) ELSE c.Path
         IN  setCookies(MapSet(jr, <<c.Name, p>>, c.Value), u, Tail(cs))

\* Client.Do(r) on the client cl with jar contents jr: the jar's cookies are
\* added to the request, the transport is asked, and the cookies of a
\* delivered response are stored.  sent is the request RoundTrip receives,
\* rt its outcome, resp what the wrapped transport answers; to a request
\* whose context has expired it answers with the error of the context.
clientDo(cl, jr, r, tok, resp) ==
    LET sent == IF cl.Jar
                THEN [r EXCEPT !.Header = addCookies(@, jarCookies(jr, r.URL))]
                ELSE r
        rt   == RoundTrip(cl.Transport.config, sent, tok)
        failed    == resp.kind = "error" \/ rt.req.Ctx = "expired"
        delivered == rt.err = "" /\ ~failed
    IN  [sent |-> sent, rt |-> rt, delivered |-> delivered,
         err  |-> IF rt.err # "" THEN rt.err
                  ELSE IF failed THEN "transport" ELSE "",
         jar  |-> IF delivered /\ cl.Jar THEN setCookies(jr, r.URL, resp.SetCookie) ELSE jr]

----
(* fhandler.go: executeAPIRequest, up to the request handed to the client *)

Placeholder(k) == <<"{">> \o k \o <<"}">>

\* The loop over fn.PathParams.
RECURSIVE substitutePathParams(_, _, _)
substitutePathParams(u, pps, args) ==
    IF pps = <<>> THEN u
    ELSE substitutePathParams(
             ReplaceAll(u, Placeholder(Head(pps)), PathEscape(Sprint(ArgAt(args, Head(pps))))),
             Tail(pps), args)

\* The loop over fn.QueryParams.
RECURSIVE setQueryParams(_, _, _)
setQueryParams(uq, qps, args) ==
    IF qps = <<>> THEN uq
    ELSE setQueryParams(ValuesSet(uq, Head(qps), Sprint(ArgAt(args, Head(qps)))), Tail(qps), args)

\* A JoinPath that works on its receiver instead of a copy.
joinPathInPlace(u, elem) == [recv |-> JoinPath(u, elem), out |-> JoinPath(u, elem)]

\* u.JoinPath(elem) as a call on the shared URL u: [recv, out], the receiver
\* after the call and the URL returned; JoinPath fills a copy (url := *u).
joinPathCall(u, elem) == [recv |-> u, out |-> JoinPath(u, elem)]

\* The URL string built from the joined URL string u0, the definition and
\* the arguments: [err, u].
finishURL(u0, f, args) ==
    LET u1 == substitutePathParams(u0, f.PathParams, args)
    IN  IF Len(f.QueryParams) > 0
        THEN LET uu == Parse(u1)
             IN  IF uu.err
                 THEN [err |-> TRUE, u |-> <<>>]
                 ELSE [err |-> FALSE,
                       u |-> String([uu.url EXCEPT
                                       !.RawQuery = Encode(setQueryParams(Query(uu.url),
                                                                          f.QueryParams, args))])]
        ELSE [err |-> FALSE, u |-> u1]

\* The URL string built from the base URL, the path template and the
\* arguments: [err, u].
buildURL(cl, f, args) ==
    finishURL(String(joinPathCall(cl.BaseURL, f.OapiPath).out), f, args)

\* The variant of the loop that ranges over the argument map, keys in the
\* order keyOrder, and knows no query parameters.
RECURSIVE substituteArgs(_, _, _)
substituteArgs(u, keyOrder, args) ==
    IF keyOrder = <<>> THEN u
    ELSE substituteArgs(
             ReplaceAll(u, Placeholder(Head(keyOrder)), PathEscape(Sprint(args[Head(keyOrder)]))),
             Tail(keyOrder), args)

buildURLRangeArgs(cl, f, args, keyOrder) ==
    [err |-> FALSE,
     u |-> substituteArgs(String(joinPathCall(cl.BaseURL, f.OapiPath).out), keyOrder, args)]

\* An executor that asks the client again when the transport has failed.
doRequestRetry(cl, jr, r, tok, resp, again) ==
    LET first == clientDo(cl, jr, r, tok, resp)
    IN  IF first.rt.err = "" /\ first.err # ""
        THEN [n |-> 2, d |-> clientDo(cl, jr, r, tok, again), resp |-> again]
        ELSE [n |-> 1, d |-> first, resp |-> resp]

\* resp, err := client.HTTPClient.Do(req): [n, d, resp], n being the number
\* of calls of Do, d the outcome of the last one and resp the answer of the
\* transport to it; again is what the transport would answer to one more
\* request.
doRequest(cl, jr, r, tok, resp, again) ==
    [n |-> 1, d |-> clientDo(cl, jr, r, tok, resp), resp |-> resp]

\* How much of the body json.Decoder.Decode has read when it returns: it
\* reads up to the end of the first JSON value or to the first byte that
\* cannot belong to one, so all of a body that ends there or before, and all
\* or part of a longer one; nothing reads on after it, and Close reads
\* nothing.
decodeReads(body) ==
    IF body \in {"empty", "truncated"} THEN {"all"} ELSE {"all", "part"}

\* json.NewDecoder(resp.Body).Decode(&result): [err, result]; result is the
\* decoded value (<<>> for the nil that null decodes to).
decodeBodyLenient(body) ==
    IF body = "json" THEN [err |-> "", result |-> <<"value">>]
    ELSE [err |-> "", result |-> <<>>]

decodeBody(body) ==
    IF body = "json" THEN [err |-> "", result |-> <<"value">>]
    ELSE IF body = "null" THEN [err |-> "", result |-> <<>>]
    ELSE IF body = "empty" THEN [err |-> "EOF", result |-> <<>>]
    ELSE IF body = "truncated" THEN [err |-> "unexpected EOF", result |-> <<>>]
    ELSE [err |-> "invalid character", result |-> <<>>]

AppJSON == <<"application/json">>

\* A request builder that sets the Content-Type header on every request.
newRequestAlwaysJSON(f, built, requestBodyArg) ==
    IF built.err THEN [err |-> "parse", req |-> <<>>]
    ELSE IF requestBodyArg.kind # "nil" /\ marshalFails(requestBodyArg)
    THEN [err |-> "marshal", req |-> <<>>]
    ELSE LET body   == IF requestBodyArg.kind # "nil" THEN <<Marshal(requestBodyArg)>> ELSE <<>>
             parsed == Parse(built.u)
         IN  IF parsed.err
             THEN [err |-> "parse", req |-> <<>>]
             ELSE [err |-> "",
                   req |-> <<Request(f.OapiMethod, parsed.url,
                                     HeaderSet(<<>>, "Content-Type", AppJSON), body)>>]

\* json.Marshal, http.NewRequest and the Content-Type header: [err, req].
\* built is the result of the URL construction.
newRequest(f, built, requestBodyArg) ==
    IF built.err THEN [err |-> "parse", req |-> <<>>]
    ELSE IF requestBodyArg.kind # "nil" /\ marshalFails(requestBodyArg)
    THEN [err |-> "marshal", req |-> <<>>]
    ELSE LET body   == IF requestBodyArg.kind # "nil" THEN <<Marshal(requestBodyArg)>> ELSE <<>>
             parsed == Parse(built.u)
         IN  IF parsed.err
             THEN [err |-> "parse", req |-> <<>>]
             ELSE [err |-> "",
                   req |-> <<Request(f.OapiMethod, parsed.url,
                                     IF body # <<>>
                                     THEN HeaderSet(<<>>, "Content-Type", AppJSON)
                                     ELSE <<>>,
                                     body)>>]

----
(* apiai.go: UnmarshalOpenAPISpecFromJSON, UnmarshalOpenAPISpecFromYAML,   *)
(* UnmarshalOpenAPISpec                                                    *)

\* The bytes handed to a decoder, as far as the decoders tell them apart:
\* syntax is "json" for a JSON text (which the YAML parser reads as well),
\* "yaml" for a YAML text that is no JSON text, "none" for neither; openapi
\* and paths are the top-level keys of those names, absent (<<>>) or
\* written exactly as the field tag (exact) or in another case, with a value
\* that is a string, a number or a mapping.
Entry(exact, kind) == [exact |-> exact, kind |-> kind]

\* var spec OpenAPISpec: the fields the decoders write here.
ZeroSpec == [OpenAPI |-> "", Paths |-> "nil"]

\* The text of a scalar of the given kind.
ScalarText(kind) == IF kind = "string" THEN "3.0.0" ELSE "3"

\* json.Unmarshal(data, &spec): a syntax error leaves spec untouched; keys
\* match the field tags in any case; a value of the wrong type is skipped,
\* the rest is decoded, and the type error is returned.
jsonUnmarshal(data, spec) ==
    IF data.syntax # "json"
    THEN [err |-> "json: invalid character", spec |-> spec]
    ELSE LET okO == data.openapi = <<>> \/ data.openapi[1].kind = "string"
             okP == data.paths = <<>> \/ data.paths[1].kind = "map"
         IN  [err  |-> IF okO /\ okP THEN "" ELSE "json: cannot unmarshal",
              spec |-> [OpenAPI |-> IF data.openapi # <<>> /\ okO
                                    THEN ScalarText("string") ELSE spec.OpenAPI,
                        Paths   |-> IF data.paths # <<>> /\ okP
                                    THEN "declared" ELSE spec.Paths]]

\* yaml.Unmarshal(data, &spec): a syntax error leaves spec untouched; keys
\* match the field tags exactly, other keys are ignored; a string field
\* takes any scalar; a value of the wrong type is skipped, the rest is
\* decoded, and the type error is returned.
yamlUnmarshal(data, spec) ==
    IF data.syntax = "none"
    THEN [err |-> "yaml: did not find expected node", spec |-> spec]
    ELSE LET hasO == data.openapi # <<>> /\ data.openapi[1].exact
             hasP == data.paths # <<>> /\ data.paths[1].exact
             okO  == ~hasO \/ data.openapi[1].kind \in {"string", "number"}
             okP  == ~hasP \/ data.paths[1].kind = "map"
         IN  [err  |-> IF okO /\ okP THEN "" ELSE "yaml: unmarshal errors",
              spec |-> [OpenAPI |-> IF hasO /\ okO
                                    THEN ScalarText(data.openapi[1].kind) ELSE spec.OpenAPI,
                        Paths   |-> IF hasP /\ okP THEN "declared" ELSE spec.Paths]]

\* [doc, err, tried]: the returned pointer and error, and the decoders run.
UnmarshalOpenAPISpecFromJSON(data) ==
    LET j == jsonUnmarshal(data, ZeroSpec)
    IN  IF j.err # ""
        THEN [doc |-> <<>>, err |-> j.err, tried |-> <<"json">>]
        ELSE [doc |-> <<j.spec>>, err |-> "", tried |-> <<"json">>]

UnmarshalOpenAPISpecFromYAML(data) ==
    LET y == yamlUnmarshal(data, ZeroSpec)
    IN  IF y.err # ""
        THEN [doc |-> <<>>, err |-> y.err, tried |-> <<"yaml">>]
        ELSE [doc |-> <<y.spec>>, err |-> "", tried |-> <<"yaml">>]

\* An auto-detection that reports the JSON error when both decoders fail.
UnmarshalOpenAPISpecKeepJSONError(data) ==
    LET j == jsonUnmarshal(data, ZeroSpec)
    IN  IF j.err # ""
        THEN LET y == yamlUnmarshal(data, j.spec)
             IN  IF y.err # ""
                 THEN [doc |-> <<>>, err |-> j.err, tried |-> <<"json", "yaml">>]
                 ELSE [doc |-> <<y.spec>>, err |-> "", tried |-> <<"json", "yaml">>]
        ELSE [doc |-> <<j.spec>>, err |-> "", tried |-> <<"json">>]

\* Both decoders write into the same variable spec.
UnmarshalOpenAPISpec(data) ==
    LET j == jsonUnmarshal(data, ZeroSpec)
    IN  IF j.err # ""
        THEN LET y == yamlUnmarshal(data, j.spec)
             IN  IF y.err # ""
                 THEN [doc |-> <<>>, err |-> y.err, tried |-> <<"json", "yaml">>]
                 ELSE [doc |-> <<y.spec>>, err |-> "", tried |-> <<"json", "yaml">>]
        ELSE [doc |-> <<j.spec>>, err |-> "", tried |-> <<"json">>]

Entries == {<<>>} \cup {<<Entry(e, k)>> : e \in BOOLEAN, k \in {"string", "number", "map"}}

DataSet == [syntax : {"json", "yaml", "none"}, openapi : Entries, paths : Entries]

----
(* Documents, parameters and operations the model is run on *)

nameName  == <<"n", "a", "m", "e">>
traceName == <<"t", "r", "a", "c", "e">>

traceParam == <<"t", "r", "a", "c", "e", "P", "a", "r", "a", "m">>
RefTrace   == RefPrefix \o traceParam

\* a table key that contains the separator; RefFive is its reference
slashParam == limitParam \o <<"/", "x">>

PetSchema ==
    Schema("object", "a pet",
           MakeMap(nameName :> <<Schema("string", "", NilMap, <<>>, "")>>),
           <<nameName>>, "")

\* #/components/parameters of the documents
ParameterTable ==
    (limitParam :> Parameter(limitName, "query", "The numbers of items to return.",
                             FALSE, <<IntegerSchema>>, <<>>))
    @@ (idParam :> Parameter(idName, "path", "The id", TRUE, <<StringSchema>>, <<>>))
    @@ (traceParam :> Parameter(traceName, "header", "Trace id", TRUE, <<StringSchema>>, <<>>))
    @@ (slashParam :> Parameter(nameName, "query", "slash key", FALSE, <<StringSchema>>, <<>>))

SmallTable ==
    (limitParam :> Parameter(limitName, "query", "", TRUE, <<>>, <<>>))

ComponentsSet ==
    { <<>>,
      <<[Parameters |-> NilMap]>>,
      <<[Parameters |-> MakeMap(ParameterTable)]>>,
      <<[Parameters |-> MakeMap(SmallTable)]>> }

\* A parameter that is only a reference.
Stub(ref) == Parameter(<<>>, "", "", FALSE, <<>>, ref)

\* A parameter with fields of its own next to a reference.
FullStub(ref) == Parameter(verboseName, "query", "own", TRUE, <<StringSchema>>, ref)

ResolveParams ==
    {Stub(r) : r \in Refs \cup {RefTrace, <<>>}}
    \cup {FullStub(r) : r \in Refs \cup {RefTrace, <<>>}}

ConvParams ==
    { Parameter(idName, "path", "the id", TRUE, <<IntegerSchema>>, <<>>),
      Parameter(limitName, "query", "max", TRUE, <<IntegerSchema>>, <<>>),
      Parameter(limitName, "query", "untyped", FALSE, <<>>, <<>>),
      Parameter(idName, "query", "id filter", FALSE, <<StringSchema>>, <<>>),
      Parameter(limitName, "header", "hdr", TRUE, <<StringSchema>>, <<>>),
      Parameter(idName, "cookie", "ck", TRUE, <<IntegerSchema>>, <<>>),
      Parameter(requestBody, "query", "clash", FALSE, <<IntegerSchema>>, <<>>),
      Stub(RefLimit), Stub(RefId), Stub(RefTrace), Stub(RefMissing), Stub(RefFive),
      FullStub(RefThree) }

JSON == "application/json"
XML  == "application/xml"

Bodies ==
    { <<>>,
      <<[Content |-> <<>>]>>,
      <<[Content |-> (JSON :> [Schema |-> <<PetSchema>>])]>>,
      <<[Content |-> (JSON :> [Schema |-> <<>>])]>>,
      <<[Content |-> (JSON :> [Schema |-> <<PetSchema>>]) @@ (XML :> [Schema |-> <<StringSchema>>])]>>,
      <<[Content |-> (JSON :> [Schema |-> <<>>]) @@ (XML :> [Schema |-> <<StringSchema>>])]>> }

NoOp == <<>>

OnePath(p, item) == p :> item

\* GET /pets with the given parameters, request body and components.
PetsDoc(ps, b, c) ==
    OpenAPISpec(OnePath(PetsPath,
                        PathItem(<<Operation(<<"S">>, <<>>, ps, b)>>, NoOp, NoOp, NoOp, NoOp)),
                c)

\* Documents with one operation, GET /pets: every parameter list up to
\* MaxParams with and without a body and a components table, and every
\* combination of request body and components with at most one parameter.
RichDocs ==
    { PetsDoc(ps, b, c) :
        ps \in BoundedSeq(ConvParams, MaxParams),
        b \in { <<>>, <<[Content |-> (JSON :> [Schema |-> <<PetSchema>>])]>> },
        c \in { <<>>, <<[Parameters |-> MakeMap(ParameterTable)]>> } }
    \cup
    { PetsDoc(ps, b, c) :
        ps \in {<<>>} \cup {<<p>> : p \in ConvParams},
        b \in Bodies,
        c \in { <<>>, <<[Parameters |-> NilMap]>>, <<[Parameters |-> MakeMap(ParameterTable)]>> } }

OpA == Operation(<<"A">>, <<>>, <<>>, <<>>)
OpB == Operation(<<"B">>, <<"D">>, <<Stub(RefId)>>,
                 <<[Content |-> (JSON :> [Schema |-> <<PetSchema>>])]>>)

\* Documents with up to MaxOps operations on two paths whose generated
\* names collide: OpB under one path, OpA under the other.
ManyDocs ==
    { OpenAPISpec([p \in {sl[1] : sl \in S} |->
                      LET at(m) == IF <<p, m>> \in S
                                   THEN <<IF p = UsersIdPath THEN OpB ELSE OpA>>
                                   ELSE NoOp
                      IN  PathItem(at(GET), at(POST), at(PUT), at(DELETE), at(PATCH))],
                  <<[Parameters |-> MakeMap(ParameterTable)]>>) :
        S \in {T \in SUBSET ({UsersIdPath, UsersUIdPath} \X Methods) :
                 Cardinality(T) <= MaxOps} }

ownerName == <<"o", "w", "n", "e", "r">>

GetTestData     == <<"G", "e", "t", " ", "t", "e", "s", "t", " ", "d", "a", "t", "a">>
ReturnsTestData == <<"R", "e", "t", "u", "r", "n", "s", " ", "t", "e", "s", "t", " ", "d", "a", "t", "a">>

\* {type: object, properties: {name: {type: string}}, required: [name]}
NameSchema ==
    Schema("object", "",
           MakeMap(nameName :> <<Schema("string", "", NilMap, <<>>, "")>>),
           <<nameName>>, "")

\* an object nested in an object, each with its own required list
NestedSchema ==
    Schema("object", "a pet with its owner",
           MakeMap((ownerName :> <<[NameSchema EXCEPT !.Description = "the owner"]>>)
                   @@ (idName :> <<IntegerSchema>>)),
           <<ownerName>>, "")

\* a required list on a node that declares no properties
BareRequiredSchema == Schema("object", "", NilMap, <<nameName>>, "")

\* a required list next to an empty, non-nil property map
EmptyPropsSchema == Schema("object", "", MakeMap(<<>>), <<nameName>>, "")

\* a property decoded from null
NullPropSchema == Schema("object", "", MakeMap(nameName :> <<>>), <<>>, "")

\* Schema nodes without properties: every combination of type, description
\* and required list; an integer has a format.
SchemaBases ==
    { Schema(t, d, NilMap, r, IF t = "integer" THEN "int32" ELSE "") :
        t \in {"object", "integer"}, d \in {"", "a pet"}, r \in {<<>>, <<nameName>>} }

tagName == <<"t", "a", "g">>

\* Schema nodes with at most n levels of properties below them: a node has
\* a nil map, an empty map, one property (nil or a node of the level
\* below), or two properties.
RECURSIVE SchemasOfDepth(_)
SchemasOfDepth(n) ==
    LET flat == SchemaBases \cup {[b EXCEPT !.Properties = MakeMap(<<>>)] : b \in SchemaBases}
    IN  IF n = 0 THEN flat
        ELSE LET sub == {<<>>} \cup {<<c>> : c \in SchemasOfDepth(n - 1)}
             IN  flat
                 \cup {[b EXCEPT !.Properties = MakeMap(nameName :> c)] :
                          b \in SchemaBases, c \in sub}
                 \cup {[b EXCEPT !.Properties =
                                    MakeMap((nameName :> <<>>) @@ (tagName :> <<IntegerSchema>>))] :
                          b \in SchemaBases}

ShapeSchemas ==
    {NameSchema, NestedSchema, BareRequiredSchema, EmptyPropsSchema, NullPropSchema}

\* Documents with one operation, POST /pets, a request body of one media
\* type and every combination of summary and description.
ShapeDocs ==
    { OpenAPISpec(OnePath(PetsPath,
                          PathItem(NoOp,
                                   <<Operation(sm, ds, <<>>,
                                               <<[Content |-> (JSON :> [Schema |-> <<sc>>])]>>)>>,
                                   NoOp, NoOp, NoOp)),
                  <<>>) :
        sm \in {<<>>, GetTestData}, ds \in {<<>>, ReturnsTestData}, sc \in ShapeSchemas }

Docs == RichDocs \cup ManyDocs \cup ShapeDocs

PathAlphabet == {"/", "{", "}", "a", "B", "_"}

NamePaths == BoundedSeq(PathAlphabet, MaxPathLen)
             \cup {PetsPath, PetsIdPath, UsersIdPath, UsersUIdPath, ItemsIdPath}

----
(* Clients, function definitions and arguments the executor is run on *)

BaseA      == <<"h", "t", "t", "p", ":", "/", "/", "a">>
BaseAV2    == BaseA \o <<"/", "v", "2">>
BaseAQuery == BaseA \o <<"/", "v", "2", "?", "v", "e", "r", "b", "o", "s", "e", "=", "0",
                         "&", "z", "=", "1", "&", "v", "e", "r", "b", "o", "s", "e", "=", "2">>
BaseBad    == <<"%", "z", "z">>

BaseURLs == {BaseA, BaseAV2, BaseAQuery, BaseBad}

NoAuth == <<>>

AuthConfigs ==
    { NoAuth,
      <<AuthConfig("none", "", "", "", "", "", FALSE, <<>>)>>,
      <<AuthConfig("basic", "admin", "secret", "", "", "", FALSE, <<>>)>>,
      <<AuthConfig("apikey-header", "", "", "X-API-Key", "12345", "", FALSE, <<>>)>>,
      <<AuthConfig("apikey-cookie", "", "", "session", "abc", "", FALSE, <<>>)>>,
      <<AuthConfig("bearer", "", "", "", "", "T", FALSE, <<>>)>>,
      <<AuthConfig("bearer", "", "", "", "", "", FALSE, <<>>)>>,
      <<AuthConfig("oauth2", "", "", "", "", "T", FALSE, <<>>)>>,
      <<AuthConfig("oauth2", "", "", "", "", "T", TRUE, <<>>)>>,
      <<AuthConfig("oauth2", "", "", "", "", "", FALSE, <<>>)>>,
      <<AuthConfig("cookie", "", "", "", "", "", FALSE,
                   <<<<"sessionid", "abc123">>, <<"csrftoken", "xyz789">>>>)>>,
      <<AuthConfig("digest", "", "", "", "", "", FALSE, <<>>)>>,
      <<AuthConfig("", "", "", "", "", "T", FALSE, <<>>)>> }

\* Outcomes of TokenSource.Token()
TokenOutcomes == {<<>>, <<"R1">>, <<"R2">>}

\* The outcomes of the token source of a configuration; one that has no
\* source has nothing to ask.
TokensOf(config) ==
    IF config # <<>> /\ config[1].TokenSource THEN TokenOutcomes ELSE {<<>>}

ExecDoc ==
    OpenAPISpec(
        (PetsIdPath :> PathItem(<<Operation(<<"S">>, <<>>,
                                            <<Parameter(idName, "path", "the id", TRUE,
                                                        <<IntegerSchema>>, <<>>)>>, <<>>)>>,
                                NoOp, NoOp, NoOp, NoOp))
        @@ (ItemsIdPath :> PathItem(<<Operation(<<"S">>, <<>>,
                                                <<Parameter(idName, "path", "the id", TRUE,
                                                            <<StringSchema>>, <<>>),
                                                  Parameter(verboseName, "query", "", FALSE,
                                                            <<StringSchema>>, <<>>)>>, <<>>)>>,
                                    NoOp, NoOp, NoOp, NoOp))
        @@ (PetsPath :> PathItem(<<Operation(<<"S">>, <<>>, <<Stub(RefLimit)>>, <<>>)>>,
                                 <<Operation(<<"S">>, <<>>, <<>>,
                                             <<[Content |-> (JSON :> [Schema |-> <<PetSchema>>])]>>)>>,
                                 NoOp, NoOp, NoOp))
        @@ (UsersIdPath :> PathItem(NoOp, NoOp, NoOp,
                                    <<Operation(<<"S">>, <<>>, <<>>, <<>>)>>, NoOp)),
        <<[Parameters |-> MakeMap(ParameterTable)]>>)

\* The definitions ConvertOpenAPIToFunctions returns for ExecDoc (its
\* generated names are distinct, so the iteration order does not matter).
ExecFunctions ==
    ConvertOpenAPIToFunctions(ExecDoc,
                              CHOOSE o \in Orders(ExecDoc) : TRUE,
                              CHOOSE f \in MediaOrders(ExecDoc) : TRUE)

ExecFns == {ExecFunctions[n] : n \in DOMAIN ExecFunctions}

Rex == <<"R", "e", "x">>

PetValue == MapValue(<<<<nameName, Rex>>>>)

ArgSets ==
    { <<>>,
      idName :> IntValue(42),
      (idName :> StrValue(<<"7">>)) @@ (verboseName :> StrValue(<<"t", "r", "u", "e">>)),
      idName :> StrValue(<<"a", " ", "b", "/", "c">>),
      limitName :> IntValue(10),
      requestBody :> PetValue,
      (idName :> IntValue(42)) @@ (verboseName :> BoolValue(TRUE)) @@ (requestBody :> PetValue),
      (limitName :> IntValue(5)) @@ (requestBody :> NilValue),
      (idName :> IntValue(42)) @@ (requestBody :> NaNValue) }

\* What the wrapped transport does with a request: a transport error, or a
\* response with a status code, a body (a JSON value, the JSON value null,
\* nothing, text that is no JSON, or a JSON value cut short; more bytes may
\* follow a value or the start of a text) and cookies.
Response(code, body, cookies) ==
    [kind |-> "response", StatusCode |-> code, Body |-> body, SetCookie |-> cookies]

TransportError == [kind |-> "error", StatusCode |-> 0, Body |-> "empty", SetCookie |-> <<>>]

Responses ==
    {TransportError}
    \cup {Response(c, b, <<>>) : c \in {200, 404}, b \in {"json", "text"}}
    \cup {Response(200, b, <<>>) : b \in {"null", "empty", "truncated"}}

\* What the transport would answer to a request sent once more.
Retries == {TransportError, Response(200, "json", <<>>)}

\* Requests a caller hands to the client itself: GET on three paths of the
\* server, with no header or with an Authorization header and a cookie of
\* its own, under the caller's context.
SessPaths ==
    { BaseA \o PetsPath,
      BaseA \o <<"/", "p", "e", "t", "s", "/", "1">>,
      BaseA \o <<"/", "i", "t", "e", "m", "s", "/", "1">> }

OwnHeaders ==
    ("Authorization" :> <<<<"Basic ", "old">>>>) @@ ("Cookie" :> <<<<<<"own", "1">>>>>>)

SessRequests ==
    { [Request(GET, Parse(u).url, h, <<>>) EXCEPT !.Ctx = "caller"] :
        u \in SessPaths, h \in {<<>>, OwnHeaders} }

\* Answers of the server: with no cookie, with a cookie that has no Path
\* attribute, with a cookie for the whole server.
SessResponses ==
    { TransportError,
      Response(200, "json", <<>>),
      Response(200, "json", <<Cookie("sid", "abc", <<>>)>>),
      Response(200, "json", <<Cookie("sid", "xyz", <<"/">>)>>) }

----
(* State machine *)

NameIdle    == inPath = <<>> /\ inMethod = <<>> /\ outName = <<>>
ResolveIdle == inParam = <<>> /\ inSpec = <<>> /\ outParam = <<>>
ConvIdle    == doc = <<>> /\ functions = <<>> /\ convOrder = <<>> /\ mtOrder = <<>>
               /\ convDone = FALSE
ClientIdle  == baseURL = <<>> /\ authConfig = <<>> /\ client = <<>> /\ clientStatus = "none"
LoadIdle    == /\ inData = <<>> /\ loader = "" /\ loadSpec = <<>> /\ loadErr = ""
               /\ loadTried = <<>>
SessIdle    == origReq = <<>> /\ jar = <<>> /\ calls = 0 /\ tokenLog = <<>>
SchemaIdle  == inSchema = <<>> /\ outSchema = <<>> /\ outAgain = <<>>
ExecIdle    == /\ handler = "" /\ callFn = <<>> /\ callArgs = <<>>
               /\ req = <<>> /\ wire = <<>> /\ response = <<>> /\ result = <<>>
               /\ err = "" /\ bodyClosed = FALSE
               /\ callCtx = "background" /\ attempts = 0 /\ rtCalls = 0 /\ bodyRead = ""
               /\ gor = <<>>

\* sanitizeFunctionName(path, method)
Sanitize ==
    /\ outName = <<>>
    /\ outName' = <<sanitizeFunctionName(inPath, inMethod)>>
    /\ UNCHANGED <<inPath, inMethod, resolveVars, schemaVars, convVars, clientVars, execVars, loadVars, sessVars>>

InitName ==
    /\ inPath \in NamePaths /\ inMethod \in Methods /\ outName = <<>>
    /\ ResolveIdle /\ SchemaIdle /\ ConvIdle /\ ClientIdle /\ ExecIdle /\ LoadIdle /\ SessIdle

SpecName == InitName /\ [][Sanitize]_vars

\* resolveParameterRef(param, spec)
Resolve ==
    /\ outParam = <<>>
    /\ outParam' = <<resolveParameterRef(inParam, inSpec)>>
    /\ UNCHANGED <<inParam, inSpec, nameVars, schemaVars, convVars, clientVars, execVars, loadVars, sessVars>>

InitResolve ==
    /\ inParam \in ResolveParams
    /\ inSpec \in {OpenAPISpec(<<>>, c) : c \in ComponentsSet}
    /\ outParam = <<>>
    /\ NameIdle /\ SchemaIdle /\ ConvIdle /\ ClientIdle /\ ExecIdle /\ LoadIdle /\ SessIdle

SpecResolve == InitResolve /\ [][Resolve]_vars

\* ConvertOpenAPIToFunctions(spec): the iteration orders over the maps are
\* chosen by the runtime.
Convert ==
    /\ ~convDone
    /\ \E order \in Orders(doc), mts \in MediaOrders(doc) :
          /\ functions' = ConvertOpenAPIToFunctions(doc, order, mts)
          /\ convOrder' = order
          /\ mtOrder' = mts
    /\ convDone' = TRUE
    /\ UNCHANGED <<doc, nameVars, resolveVars, schemaVars, clientVars, execVars, loadVars, sessVars>>

InitConvert ==
    /\ doc \in Docs
    /\ functions = <<>> /\ convOrder = <<>> /\ mtOrder = <<>> /\ convDone = FALSE
    /\ NameIdle /\ SchemaIdle /\ ResolveIdle /\ ClientIdle /\ ExecIdle /\ LoadIdle /\ SessIdle

SpecConvert == InitConvert /\ [][Convert]_vars

\* NewAPIClient(baseURL, authConfig)
NewAPIClient ==
    /\ clientStatus = "none"
    /\ LET r == NewAPIClientResult(baseURL, authConfig)
       IN  /\ client' = r.client
           /\ clientStatus' = IF r.panic THEN "panic"
                              ELSE IF r.err # "" THEN "error" ELSE "ok"
    /\ UNCHANGED <<baseURL, authConfig, nameVars, resolveVars, schemaVars, convVars, execVars, loadVars, sessVars>>

\* HTTPClient.Do(req) and the decoding of the response, for the request
\* built by either variant of executeAPIRequest.  A call leaves nothing
\* behind that a later call reads, so a behaviour makes one call.
Call(h, f, a, nr, tok, resp, again) ==
    /\ handler' = h /\ callFn' = f /\ callArgs' = a
    /\ calls' = calls + 1
    /\ IF nr.err # ""
       THEN /\ req' = nr.req /\ wire' = <<>> /\ response' = <<>> /\ result' = <<>>
            /\ err' = nr.err /\ bodyClosed' = FALSE
            /\ attempts' = 0 /\ rtCalls' = 0 /\ bodyRead' = ""
            /\ UNCHANGED <<origReq, jar, tokenLog>>
       ELSE LET dr  == doRequest(client[1].HTTPClient, jar, nr.req[1], tok, resp, again)
                d   == dr.d
                dec == decodeBody(dr.resp.Body)
            IN  /\ req' = <<d.sent>>
                /\ origReq' = <<d.rt.orig>>
                /\ jar' = d.jar
                /\ tokenLog' = IF d.rt.asked THEN Append(tokenLog, tok) ELSE tokenLog
                /\ wire' = IF d.rt.sends > 0 THEN <<d.rt.req>> ELSE <<>>
                /\ attempts' = dr.n
                /\ rtCalls' = d.rt.sends
                /\ IF ~d.delivered
                   THEN /\ response' = <<>> /\ result' = <<>>
                        /\ err' = d.err /\ bodyClosed' = FALSE /\ bodyRead' = ""
                   ELSE /\ response' = <<dr.resp>>
                        /\ bodyClosed' = TRUE
                        /\ bodyRead' \in decodeReads(dr.resp.Body)
                        /\ result' = IF dec.err = "" THEN dec.result ELSE <<>>
                        /\ err' = dec.err
    /\ UNCHANGED <<callCtx, gor, nameVars, resolveVars, schemaVars, convVars, clientVars, loadVars>>

\* ExecuteFunction(client, fn, arguments) of src/unnamed/part_000: path
\* parameters from fn.PathParams, query parameters from fn.QueryParams.
ExecuteFunction ==
    /\ clientStatus = "ok" /\ handler = ""
    /\ \E f \in ExecFns, a \in ArgSets, tok \in TokensOf(authConfig),
          resp \in Responses, again \in Retries :
          Call("PathParams", f, a,
               newRequest(f, buildURL(client[1], f, a), ArgAt(a, requestBody)),
               tok, resp, again)

\* ExecuteFunction(client, fn, arguments) of src/fhandler.go: placeholders
\* replaced for every key of the argument map, in map iteration order.
ExecuteFunctionRangeArgs ==
    /\ clientStatus = "ok" /\ handler = ""
    /\ \E f \in ExecFns, a \in ArgSets, tok \in TokensOf(authConfig),
          resp \in Responses, again \in Retries :
          \E keyOrder \in Perms(DOMAIN a) :
              Call("RangeArgs", f, a,
                   newRequest(f, buildURLRangeArgs(client[1], f, a, keyOrder),
                              ArgAt(a, requestBody)), tok, resp, again)

InitExec ==
    /\ baseURL \in BaseURLs /\ authConfig \in AuthConfigs
    /\ client = <<>> /\ clientStatus = "none"
    /\ ExecIdle /\ NameIdle /\ SchemaIdle /\ ResolveIdle /\ ConvIdle /\ LoadIdle /\ SessIdle

NextExec == NewAPIClient \/ ExecuteFunction \/ ExecuteFunctionRangeArgs

SpecExec == InitExec /\ [][NextExec]_vars

\* The contexts a caller of ExecuteFunction may run under: none of its own,
\* one with a deadline still ahead, one whose deadline has passed.
Contexts == {"background", "deadline", "expired"}

\* ExecuteFunction called by a caller that runs under one of Contexts.
InitDeadline ==
    /\ baseURL = BaseA
    /\ authConfig \in {a \in AuthConfigs : a # <<>> /\ a[1].Type \in {"none", "basic"}}
    /\ client = <<>> /\ clientStatus = "none"
    /\ callCtx \in Contexts
    /\ handler = "" /\ callFn = <<>> /\ callArgs = <<>>
    /\ req = <<>> /\ wire = <<>> /\ response = <<>> /\ result = <<>>
    /\ err = "" /\ bodyClosed = FALSE
    /\ attempts = 0 /\ rtCalls = 0 /\ bodyRead = "" /\ gor = <<>>
    /\ NameIdle /\ SchemaIdle /\ ResolveIdle /\ ConvIdle /\ LoadIdle /\ SessIdle

SpecDeadline == InitDeadline /\ [][NextExec]_vars

\* Two calls of ExecuteFunction (goroutines 1 and 2) that share the client
\* and the definition callFn, each with an argument map of its own.  A call
\* goes through three steps, each one read of the shared objects: the join of
\* the base URL with the path template, the rest of the construction of the
\* request, and HTTPClient.Do.
Goroutines == {1, 2}

\* u := client.BaseURL.JoinPath(fn.OapiPath).String()
Join(i) ==
    /\ clientStatus = "ok" /\ gor[i].pc = "join"
    /\ LET j == joinPathCall(client[1].BaseURL, callFn.OapiPath)
       IN  /\ client' = <<[client[1] EXCEPT !.BaseURL = j.recv]>>
           /\ gor' = [gor EXCEPT ![i].pc = "build", ![i].u = String(j.out)]
    /\ UNCHANGED <<baseURL, authConfig, clientStatus,
                   handler, callFn, callArgs, req, wire, response, result, err, bodyClosed,
                   callCtx, attempts, rtCalls, bodyRead,
                   nameVars, resolveVars, schemaVars, convVars, loadVars, sessVars>>

\* The substitution of the placeholders, the query, json.Marshal and
\* http.NewRequest, in the variant handler names.
Build(i) ==
    /\ gor[i].pc = "build"
    /\ \E keyOrder \in Perms(DOMAIN gor[i].args) :
          LET a     == gor[i].args
              built == IF handler = "PathParams"
                       THEN finishURL(gor[i].u, callFn, a)
                       ELSE [err |-> FALSE, u |-> substituteArgs(gor[i].u, keyOrder, a)]
              nr    == newRequest(callFn, built, ArgAt(a, requestBody))
          IN  gor' = [gor EXCEPT ![i].pc = IF nr.err = "" THEN "do" ELSE "done",
                                 ![i].req = nr.req, ![i].err = nr.err]
    /\ UNCHANGED <<clientVars,
                   handler, callFn, callArgs, req, wire, response, result, err, bodyClosed,
                   callCtx, attempts, rtCalls, bodyRead,
                   nameVars, resolveVars, schemaVars, convVars, loadVars, sessVars>>

\* resp, err := client.HTTPClient.Do(req), and the decoding of the answer
Do(i) ==
    /\ gor[i].pc = "do"
    /\ \E resp \in {TransportError, Response(200, "json", <<>>)} :
          LET d == doRequest(client[1].HTTPClient, jar, gor[i].req[1], <<>>, resp, resp).d
          IN  /\ gor' = [gor EXCEPT ![i].pc = "done", ![i].sent = <<d.sent>>,
                                    ![i].err = IF ~d.delivered THEN d.err
                                               ELSE decodeBody(resp.Body).err]
              /\ jar' = d.jar
    /\ UNCHANGED <<clientVars,
                   handler, callFn, callArgs, req, wire, response, result, err, bodyClosed,
                   callCtx, attempts, rtCalls, bodyRead,
                   nameVars, resolveVars, schemaVars, convVars, loadVars, origReq, calls, tokenLog>>

\* The argument maps of the calls that run side by side.
SharedArgs ==
    { <<>>,
      idName :> IntValue(42),
      (idName :> StrValue(<<"7">>)) @@ (verboseName :> StrValue(<<"t", "r", "u", "e">>)),
      (limitName :> IntValue(10)) @@ (requestBody :> PetValue) }

InitShared ==
    /\ baseURL = BaseAV2
    /\ authConfig \in {a \in AuthConfigs : a # <<>> /\ a[1].Type \in {"basic", "cookie"}}
    /\ client = <<>> /\ clientStatus = "none"
    /\ handler \in {"PathParams", "RangeArgs"}
    /\ callFn \in ExecFns
    /\ gor \in [Goroutines -> {[pc |-> "join", args |-> a, u |-> <<>>, req |-> <<>>,
                                 sent |-> <<>>, err |-> ""] : a \in SharedArgs}]
    /\ callArgs = <<>>
    /\ req = <<>> /\ wire = <<>> /\ response = <<>> /\ result = <<>>
    /\ err = "" /\ bodyClosed = FALSE
    /\ callCtx = "background" /\ attempts = 0 /\ rtCalls = 0 /\ bodyRead = ""
    /\ NameIdle /\ SchemaIdle /\ ResolveIdle /\ ConvIdle /\ LoadIdle /\ SessIdle

NextShared == NewAPIClient \/ \E i \in Goroutines : Join(i) \/ Build(i) \/ Do(i)

SpecShared == InitShared /\ [][NextShared]_vars

\* The three entry points of decoding.
Load(name, r) ==
    /\ loader = ""
    /\ loader' = name
    /\ loadSpec' = r.doc /\ loadErr' = r.err /\ loadTried' = r.tried
    /\ UNCHANGED <<inData, nameVars, resolveVars, schemaVars, convVars, clientVars, execVars, sessVars>>

UnmarshalAuto == Load("auto", UnmarshalOpenAPISpec(inData))

UnmarshalJSON == Load("json", UnmarshalOpenAPISpecFromJSON(inData))

UnmarshalYAML == Load("yaml", UnmarshalOpenAPISpecFromYAML(inData))

InitLoad ==
    /\ inData \in DataSet
    /\ loader = "" /\ loadSpec = <<>> /\ loadErr = "" /\ loadTried = <<>>
    /\ NameIdle /\ SchemaIdle /\ ResolveIdle /\ ConvIdle /\ ClientIdle /\ ExecIdle /\ SessIdle

NextLoad == UnmarshalAuto \/ UnmarshalJSON \/ UnmarshalYAML

SpecLoad == InitLoad /\ [][NextLoad]_vars

\* client.HTTPClient.Do(r) for a request the caller made, on the client
\* NewAPIClient returned; up to MaxCalls requests on one client.
ClientDo ==
    /\ clientStatus = "ok" /\ handler \in {"", "Do"} /\ calls < MaxCalls
    /\ \E r \in SessRequests, tok \in TokensOf(authConfig), resp \in SessResponses :
          LET d == clientDo(client[1].HTTPClient, jar, r, tok, resp)
          IN  /\ handler' = "Do"
              /\ calls' = calls + 1
              /\ req' = <<d.sent>>
              /\ origReq' = <<d.rt.orig>>
              /\ jar' = d.jar
              /\ tokenLog' = IF d.rt.asked THEN Append(tokenLog, tok) ELSE tokenLog
              /\ wire' = IF d.rt.sends > 0 THEN <<d.rt.req>> ELSE <<>>
              /\ rtCalls' = d.rt.sends
              /\ response' = IF d.delivered THEN <<resp>> ELSE <<>>
              /\ err' = d.err
    /\ UNCHANGED <<callFn, callArgs, result, bodyClosed, callCtx, attempts, bodyRead, gor,
                   nameVars, resolveVars, schemaVars, convVars, clientVars, loadVars>>

InitSession ==
    /\ baseURL \in {BaseA, BaseBad} /\ authConfig \in AuthConfigs
    /\ client = <<>> /\ clientStatus = "none"
    /\ ExecIdle /\ NameIdle /\ SchemaIdle /\ ResolveIdle /\ ConvIdle /\ LoadIdle /\ SessIdle

NextSession == NewAPIClient \/ ClientDo

SpecSession == InitSession /\ [][NextSession]_vars

\* art.RoundTrip(r) on a round tripper of the package whose config field is
\* authConfig (nil included) and whose wrapped transport answers resp.
RoundTripCall ==
    /\ handler = ""
    /\ \E r \in SessRequests, tok \in TokensOf(authConfig), resp \in SessResponses :
          LET rt == RoundTrip(authConfig, r, tok)
          IN  /\ handler' = "RoundTrip"
              /\ req' = <<r>>
              /\ origReq' = <<rt.orig>>
              /\ tokenLog' = IF rt.asked THEN Append(tokenLog, tok) ELSE tokenLog
              /\ wire' = IF rt.sends > 0 THEN <<rt.req>> ELSE <<>>
              /\ rtCalls' = rt.sends
              /\ response' = IF rt.sends > 0 /\ resp.kind # "error" THEN <<resp>> ELSE <<>>
              /\ err' = IF rt.err # "" THEN rt.err
                        ELSE IF rt.sends > 0 /\ resp.kind = "error" THEN "transport" ELSE ""
    /\ UNCHANGED <<callFn, callArgs, result, bodyClosed, callCtx, attempts, bodyRead, gor,
                   jar, calls, nameVars, resolveVars, schemaVars, convVars, clientVars, loadVars>>

InitRoundTrip ==
    /\ baseURL = BaseA /\ authConfig \in AuthConfigs
    /\ client = <<>> /\ clientStatus = "none"
    /\ ExecIdle /\ NameIdle /\ SchemaIdle /\ ResolveIdle /\ ConvIdle /\ LoadIdle /\ SessIdle

SpecRoundTrip == InitRoundTrip /\ [][RoundTripCall]_vars

\* prop := convertSchemaToProperty(schema)
ConvertSchema ==
    /\ outSchema = <<>>
    /\ outSchema' = <<convertSchemaToProperty(inSchema)>>
    /\ UNCHANGED <<inSchema, outAgain, nameVars, resolveVars, convVars, clientVars, execVars,
                   loadVars, sessVars>>

\* convertSchemaToProperty(prop), on the node the first call returned
ConvertAgain ==
    /\ outSchema # <<>> /\ outAgain = <<>>
    /\ outAgain' = <<convertSchemaToProperty(outSchema)>>
    /\ UNCHANGED <<inSchema, outSchema, nameVars, resolveVars, convVars, clientVars, execVars,
                   loadVars, sessVars>>

InitSchema ==
    /\ inSchema \in {<<>>} \cup {<<s>> : s \in SchemasOfDepth(MaxDepth)}
    /\ outSchema = <<>> /\ outAgain = <<>>
    /\ NameIdle /\ ResolveIdle /\ ConvIdle /\ ClientIdle /\ ExecIdle /\ LoadIdle /\ SessIdle

NextSchema == ConvertSchema \/ ConvertAgain

SpecSchema == InitSchema /\ [][NextSchema]_vars

----
(* Properties of conversion *)

\* The operation a path item declares for a method, read off its fields.
Declared(item, m) ==
    IF m = GET THEN item.Get
    ELSE IF m = POST THEN item.Post
    ELSE IF m = PUT THEN item.Put
    ELSE IF m = DELETE THEN item.Delete
    ELSE item.Patch

\* The (path, method) pairs of the document that have a non-nil operation.
DeclaredSlots ==
    {sl \in (DOMAIN doc.Paths) \X Methods : Declared(doc.Paths[sl[1]], sl[2]) # <<>>}

DeclaredOp(sl) == Declared(doc.Paths[sl[1]], sl[2])[1]

\* The generated name, written character by character.
NotBrace(c) == c \notin {"{", "}"}

NameOf(p, m) ==
    LET raw == m \o SelectSeq(p, NotBrace)
    IN  [i \in DOMAIN raw |-> IF raw[i] = "/" THEN "_" ELSE ToLowerChar(raw[i])]

NamesDistinct ==
    \A s1, s2 \in DeclaredSlots : NameOf(s1[1], s1[2]) = NameOf(s2[1], s2[2]) => s1 = s2

\* The slot a stored definition says it came from.
OriginOf(f) == <<f.OapiPath, f.OapiMethod>>

\* The parameters of an operation after reference resolution, written from
\* the reference syntax: a reference resolves when it is RefPrefix followed
\* by a key of the table that has no further separator.
Target(p) ==
    IF /\ p.Ref # <<>> /\ doc.Components # <<>> /\ ~doc.Components[1].Parameters.isnil
       /\ HasPrefix(p.Ref, RefPrefix)
       /\ "/" \notin Range(SubSeq(p.Ref, Len(RefPrefix) + 1, Len(p.Ref)))
       /\ SubSeq(p.Ref, Len(RefPrefix) + 1, Len(p.Ref)) \in DOMAIN doc.Components[1].Parameters.m
    THEN doc.Components[1].Parameters.m[SubSeq(p.Ref, Len(RefPrefix) + 1, Len(p.Ref))]
    ELSE p

IsSurfaced(p) == Target(p).In \in {"path", "query"}
IsPathParam(p) == Target(p).In = "path"
IsQueryParam(p) == Target(p).In = "query"
IsRequiredParam(p) == IsSurfaced(p) /\ Target(p).Required

TargetNames(ps) == [i \in DOMAIN ps |-> Target(ps[i]).Name]

\* The media types of an operation that carry a schema.
SchemaMedia(op) ==
    IF op.RequestBody = <<>> THEN {}
    ELSE {k \in DOMAIN op.RequestBody[1].Content : op.RequestBody[1].Content[k].Schema # <<>>}

\* The example document of the round-trip property: GET /pets with one
\* required integer query parameter limit.
LimitDoc ==
    OpenAPISpec(OnePath(PetsPath,
                        PathItem(<<Operation(<<"S">>, <<>>,
                                             <<Parameter(limitName, "query", "max", TRUE,
                                                         <<IntegerSchema>>, <<>>)>>,
                                             <<>>)>>,
                                 NoOp, NoOp, NoOp, NoOp)),
                <<>>)

get_pets == <<"g", "e", "t", "_", "p", "e", "t", "s">>

\* C4 as stated: every path or query parameter has a property under its
\* name with the type of its own schema and its own description; PathParams,
\* QueryParams and the required list hold the names in declaration order.
C4_AsStated ==
    convDone =>
        \A n \in DOMAIN functions :
            LET f  == functions[n]
                ps == DeclaredOp(OriginOf(f)).Parameters
            IN  /\ f.Parameters.Type = "object"
                /\ f.PathParams = TargetNames(SelectSeq(ps, IsPathParam))
                /\ f.QueryParams = TargetNames(SelectSeq(ps, IsQueryParam))
                /\ f.Parameters.Required = TargetNames(SelectSeq(ps, IsRequiredParam))
                /\ \A i \in DOMAIN ps :
                      IsSurfaced(ps[i]) =>
                          LET t == Target(ps[i])
                          IN  /\ t.Name \in DOMAIN f.Parameters.Properties.m
                              /\ f.Parameters.Properties.m[t.Name][1].Description = t.Description
                              /\ t.Schema # <<>> =>
                                    f.Parameters.Properties.m[t.Name][1].Type = t.Schema[1].Type

\* C4 (amended): the property under a name carries the type and description
\* of the last declared path or query parameter of that name (type "string"
\* when it has no schema), unless the name is requestBody and the request
\* body has a schema; the name lists are in declaration order; the example
\* document yields exactly get_pets with limit: integer, required.
Thm_C4 ==
    convDone =>
        /\ \A n \in DOMAIN functions :
              LET f  == functions[n]
                  op == DeclaredOp(OriginOf(f))
                  ps == op.Parameters
              IN  /\ f.Parameters.Type = "object"
                  /\ f.PathParams = TargetNames(SelectSeq(ps, IsPathParam))
                  /\ f.QueryParams = TargetNames(SelectSeq(ps, IsQueryParam))
                  /\ f.Parameters.Required = TargetNames(SelectSeq(ps, IsRequiredParam))
                  /\ \A i \in DOMAIN ps :
                        (/\ IsSurfaced(ps[i])
                         /\ \A j \in DOMAIN ps :
                               (j > i /\ IsSurfaced(ps[j])) => Target(ps[j]).Name # Target(ps[i]).Name
                         /\ (Target(ps[i]).Name = requestBody => SchemaMedia(op) = {}))
                        => LET t == Target(ps[i])
                           IN  /\ t.Name \in DOMAIN f.Parameters.Properties.m
                               /\ f.Parameters.Properties.m[t.Name][1].Description = t.Description
                               /\ f.Parameters.Properties.m[t.Name][1].Type =
                                     (IF t.Schema = <<>> THEN "string" ELSE t.Schema[1].Type)
        /\ doc = LimitDoc =>
              /\ DOMAIN functions = {get_pets}
              /\ functions[get_pets].Name = get_pets
              /\ DOMAIN functions[get_pets].Parameters.Properties.m = {limitName}
              /\ functions[get_pets].Parameters.Properties.m[limitName][1].Type = "integer"
              /\ functions[get_pets].Parameters.Required = <<limitName>>
              /\ functions[get_pets].QueryParams = <<limitName>>
              /\ functions[get_pets].PathParams = <<>>

Wit_C4 ==
    /\ convDone /\ doc = LimitDoc
    /\ functions[get_pets].QueryParams = <<limitName>>

\* C5: conversion yields one definition per declared operation: every entry
\* is stored under its own Name and names the path and method of a declared
\* operation; when the generated names are distinct there are as many entries
\* as declared operations and each operation has its entry.
Thm_C5 ==
    convDone =>
        /\ \A n \in DOMAIN functions :
              /\ functions[n].Name = n
              /\ OriginOf(functions[n]) \in DeclaredSlots
              /\ n = NameOf(functions[n].OapiPath, functions[n].OapiMethod)
        /\ NamesDistinct =>
              /\ Cardinality(DOMAIN functions) = Cardinality(DeclaredSlots)
              /\ \A sl \in DeclaredSlots :
                    /\ NameOf(sl[1], sl[2]) \in DOMAIN functions
                    /\ OriginOf(functions[NameOf(sl[1], sl[2])]) = sl

Wit_C5 ==
    /\ convDone /\ NamesDistinct
    /\ Cardinality(DeclaredSlots) = 3
    /\ Cardinality(DOMAIN functions) = 3
    /\ <<UsersIdPath, PATCH>> \in DeclaredSlots

\* The operations whose generated name is n, and the one converted last.
SlotsNamed(n) == {i \in DOMAIN convOrder : NameOf(convOrder[i][1], convOrder[i][2]) = n}

LastNamed(n) == convOrder[CHOOSE i \in SlotsNamed(n) : \A j \in SlotsNamed(n) : j <= i]

\* C7: when operations generate the same name the mapping holds one
\* definition under it, that of the operation converted last: its path,
\* method, description and parameter lists are all those of that operation.
Thm_C7 ==
    convDone =>
        /\ DOMAIN functions = {NameOf(sl[1], sl[2]) : sl \in DeclaredSlots}
        /\ \A n \in DOMAIN functions :
              LET last == LastNamed(n)
                  op   == DeclaredOp(last)
                  f    == functions[n]
              IN  /\ OriginOf(f) = last
                  /\ f.Description = (IF op.Description = <<>> THEN op.Summary
                                      ELSE op.Summary \o <<"\n">> \o op.Description)
                  /\ f.PathParams = TargetNames(SelectSeq(op.Parameters, IsPathParam))
                  /\ f.QueryParams = TargetNames(SelectSeq(op.Parameters, IsQueryParam))
                  /\ f.Parameters.Required = TargetNames(SelectSeq(op.Parameters, IsRequiredParam))

get_users_id == <<"g", "e", "t", "_", "u", "s", "e", "r", "s", "_", "i", "d">>

Wit_C7 ==
    /\ convDone
    /\ {<<UsersIdPath, GET>>, <<UsersUIdPath, GET>>} \subseteq DeclaredSlots
    /\ DeclaredOp(<<UsersIdPath, GET>>) = OpB
    /\ DeclaredOp(<<UsersUIdPath, GET>>) = OpA
    /\ convOrder[Len(convOrder)] = <<UsersUIdPath, GET>>
    /\ functions[get_users_id].OapiPath = UsersUIdPath
    /\ functions[get_users_id].PathParams = <<>>

\* C10: a parameter whose resolved location is neither path nor query leaves
\* no trace: every definition equals the one obtained from the operation
\* without such parameters, and its name appears in the properties, the
\* required list, PathParams or QueryParams only if a path or query parameter
\* (or the request body) puts it there.
Thm_C10 ==
    convDone =>
        \A n \in DOMAIN functions :
            LET f    == functions[n]
                sl   == OriginOf(f)
                op   == DeclaredOp(sl)
                kept == SelectSeq(op.Parameters, IsSurfaced)
                keptNames == Range(TargetNames(kept))
            IN  /\ f = convertOperation(doc, sl[1], sl[2],
                                        [op EXCEPT !.Parameters = kept], mtOrder[sl])
                /\ Range(f.PathParams) \cup Range(f.QueryParams) \cup Range(f.Parameters.Required)
                      \subseteq keptNames
                /\ DOMAIN f.Parameters.Properties.m \subseteq keptNames \cup {requestBody}
                /\ Len(f.PathParams) + Len(f.QueryParams) = Len(kept)

Wit_C10 ==
    /\ convDone
    /\ \E n \in DOMAIN functions :
          LET ps == DeclaredOp(OriginOf(functions[n])).Parameters
          IN  /\ Len(ps) = 2
              /\ ps[1] = Parameter(limitName, "header", "hdr", TRUE, <<StringSchema>>, <<>>)
              /\ ps[2] = Stub(RefMissing)
              /\ DOMAIN functions[n].Parameters.Properties.m = {}
              /\ functions[n].Parameters.Required = <<>>

----
(* Properties of name generation *)

get_pets_id == <<"g", "e", "t", "_", "p", "e", "t", "s", "_", "i", "d">>
post_pets   == <<"p", "o", "s", "t", "_", "p", "e", "t", "s">>

\* C6: the generated name is the lower-cased method followed by the path
\* with every "/" replaced by "_" and every brace removed; it has no "/",
\* brace or upper-case letter; GET /pets/{id} gives get_pets_id and
\* POST /pets gives post_pets.
Thm_C6 ==
    outName # <<>> =>
        /\ outName[1] = NameOf(inPath, inMethod)
        /\ Range(outName[1]) \cap ({"/", "{", "}"} \cup Range(UpperLetters)) = {}
        /\ Len(outName[1]) =
              Len(inMethod) + Cardinality({i \in DOMAIN inPath : inPath[i] \notin {"{", "}"}})
        /\ (inMethod = GET /\ inPath = PetsIdPath) => outName[1] = get_pets_id
        /\ (inMethod = POST /\ inPath = PetsPath) => outName[1] = post_pets

Wit_C6 == inMethod = GET /\ inPath = PetsIdPath /\ outName = <<get_pets_id>>

----
(* Properties of reference resolution *)

HasTable == inSpec.Components # <<>> /\ ~inSpec.Components[1].Parameters.isnil

Table == inSpec.Components[1].Parameters.m

\* The key named by a reference of the four-segment shape.
KeyOf(ref) == SubSeq(ref, Len(RefPrefix) + 1, Len(ref))

FourSegments(ref) == HasPrefix(ref, RefPrefix) /\ "/" \notin Range(KeyOf(ref))

\* C8 as stated: a reference #/components/parameters/<k> with <k> a key of
\* the table resolves to the table's entry, whatever the key.
C8_AsStated ==
    (outParam # <<>> /\ HasTable) =>
        \A k \in DOMAIN Table : inParam.Ref = RefPrefix \o k => outParam[1] = Table[k]

\* C8 (amended): a reference #/components/parameters/<k> with <k> a key of
\* the table that contains no "/" resolves to the table's entry, with
\* nothing taken from the stub.
Thm_C8 ==
    (outParam # <<>> /\ HasTable) =>
        \A k \in DOMAIN Table :
            (inParam.Ref = RefPrefix \o k /\ "/" \notin Range(k)) => outParam[1] = Table[k]

Wit_C8 ==
    /\ inParam = FullStub(RefLimit)
    /\ HasTable /\ Table = ParameterTable
    /\ outParam = <<ParameterTable[limitParam]>>
    /\ outParam[1].Name = limitName /\ outParam[1].Ref = <<>>

\* C9: the parameter comes back unchanged when it has no reference, the
\* document has no components or no parameter table, the reference is not
\* of the four-segment shape, or its key is not in the table.
Thm_C9 ==
    (/\ outParam # <<>>
     /\ \/ inParam.Ref = <<>>
        \/ ~HasTable
        \/ ~FourSegments(inParam.Ref)
        \/ KeyOf(inParam.Ref) \notin DOMAIN Table)
    => outParam[1] = inParam

Wit_C9 ==
    /\ inParam = FullStub(RefSchemas)
    /\ HasTable /\ Table = ParameterTable
    /\ outParam = <<inParam>>

----
(* Properties of the client and of execution *)

Contains(s, sub) ==
    \E i \in 1..(Len(s) - Len(sub) + 1) : SubSeq(s, i, i + Len(sub) - 1) = sub

\* The path template with the placeholder of every name of pps replaced by
\* the path-escaped string form of its argument.
RECURSIVE Substituted(_, _, _)
Substituted(template, pps, a) ==
    IF pps = <<>> THEN template
    ELSE Substituted(ReplaceAll(template, Placeholder(Head(pps)),
                                PathEscape(Sprint(ArgAt(a, Head(pps))))),
                     Tail(pps), a)

\* C1: the request goes to the base URL followed by the path template in
\* which the placeholder of every path parameter is replaced by the
\* path-escaped argument; no placeholder, literal or escaped, remains; for
\* /pets/{id} and {"id": 42} the URL is <base>/pets/42.
C1_AsStated ==
    (req # <<>> /\ Range(callFn.PathParams) \subseteq DOMAIN callArgs) =>
        LET u == String(req[1].URL)
        IN  /\ \A i \in DOMAIN callFn.PathParams :
                  /\ ~Contains(u, Placeholder(callFn.PathParams[i]))
                  /\ ~Contains(u, escape(Placeholder(callFn.PathParams[i]), "encodePath"))
            /\ callFn.OapiPath \in {PetsIdPath, ItemsIdPath} =>
                  EscapedPath(req[1].URL) =
                      EscapedPath(client[1].BaseURL)
                      \o Substituted(callFn.OapiPath, callFn.PathParams, callArgs)
            /\ (callFn.OapiPath = PetsIdPath /\ callArgs = (idName :> IntValue(42))
                /\ baseURL = BaseA)
               => u = BaseA \o <<"/", "p", "e", "t", "s", "/", "4", "2">>

\* C2: every query parameter of the definition is a key of the request's
\* query with exactly one value, the string form of its argument; for
\* GET /items/{id} with verbose and {"id": "7", "verbose": "true"} the path
\* is /items/7 and the query string verbose=true.
C2_AsStated ==
    req # <<>> =>
        /\ \A i \in DOMAIN callFn.QueryParams :
              LET qp == callFn.QueryParams[i]
                  q  == Query(req[1].URL)
              IN  qp \in DOMAIN q /\ q[qp] = <<Sprint(ArgAt(callArgs, qp))>>
        /\ (/\ callFn.OapiPath = ItemsIdPath
            /\ callArgs = (idName :> StrValue(<<"7">>))
                          @@ (verboseName :> StrValue(<<"t", "r", "u", "e">>))
            /\ baseURL = BaseA)
           => /\ req[1].URL.Path = <<"/", "i", "t", "e", "m", "s", "/", "7">>
              /\ req[1].URL.RawQuery = verboseName \o <<"=", "t", "r", "u", "e">>

\* C3: NewAPIClient with a parseable base URL and a nil auth configuration
\* returns a client and no error, without panicking, and requests sent
\* through it reach the transport as they were built.
C3_AsStated ==
    /\ (clientStatus # "none" /\ authConfig = NoAuth /\ ~Parse(baseURL).err)
          => (clientStatus = "ok" /\ client # <<>>)
    /\ (authConfig = NoAuth /\ wire # <<>>) => wire = req

----
(* Properties of the request body and the description *)

\* prop has the shape of the declared schema at every depth: type,
\* description, property names and, recursively, their shapes; a property
\* declared without a schema has type string.  The required list is that of
\* the declared node; when bare is FALSE, only for a node that declares
\* properties, and empty otherwise.
RECURSIVE Shape(_, _, _)
Shape(prop, declared, bare) ==
    IF declared = <<>>
    THEN prop.Type = "string" /\ prop.Properties.isnil /\ prop.Required = <<>>
    ELSE LET d == declared[1]
         IN  /\ prop.Type = d.Type
             /\ prop.Description = d.Description
             /\ prop.Properties.isnil = d.Properties.isnil
             /\ DOMAIN prop.Properties.m = DOMAIN d.Properties.m
             /\ \A n \in DOMAIN d.Properties.m :
                   /\ Len(prop.Properties.m[n]) = 1
                   /\ Shape(prop.Properties.m[n][1], d.Properties.m[n], bare)
             /\ prop.Required = (IF bare \/ ~d.Properties.isnil THEN d.Required ELSE <<>>)

\* The media type of the operation at slot sl that is visited last among
\* those with a schema.
LastSchemaMedia(sl) ==
    LET order == mtOrder[sl]
        with  == {i \in DOMAIN order : order[i] \in SchemaMedia(DeclaredOp(sl))}
    IN  order[CHOOSE i \in with : \A j \in with : j <= i]

BodySchema(sl, k) == DeclaredOp(sl).RequestBody[1].Content[k].Schema

\* C11 as stated: the requestBody property reproduces the declared schema of
\* the request body at every depth, required lists included.
C11_AsStated ==
    convDone =>
        \A n \in DOMAIN functions :
            LET f  == functions[n]
                sl == OriginOf(f)
            IN  SchemaMedia(DeclaredOp(sl)) # {} =>
                    /\ requestBody \in DOMAIN f.Parameters.Properties.m
                    /\ \E k \in SchemaMedia(DeclaredOp(sl)) :
                          Shape(f.Parameters.Properties.m[requestBody][1], BodySchema(sl, k), TRUE)

\* C11 (amended): when a media type of the request body has a schema, the
\* property requestBody sits next to the path and query properties and has
\* the shape of the schema visited last, at every depth: type, description,
\* property names, and the required list of every node that declares
\* properties (a node without properties gets no required list); the schema
\* {type: object, properties: {name: {type: string}}, required: [name]} is
\* reproduced as is.
Thm_C11 ==
    convDone =>
        \A n \in DOMAIN functions :
            LET f     == functions[n]
                sl    == OriginOf(f)
                op    == DeclaredOp(sl)
                props == f.Parameters.Properties.m
            IN  /\ SchemaMedia(op) # {} =>
                      /\ requestBody \in DOMAIN props
                      /\ Shape(props[requestBody][1], BodySchema(sl, LastSchemaMedia(sl)), FALSE)
                      /\ DOMAIN props =
                            {requestBody} \cup Range(TargetNames(SelectSeq(op.Parameters, IsSurfaced)))
                      /\ BodySchema(sl, LastSchemaMedia(sl)) = <<NameSchema>> =>
                            props[requestBody][1] = NameSchema
                /\ SchemaMedia(op) = {} =>
                      DOMAIN props = Range(TargetNames(SelectSeq(op.Parameters, IsSurfaced)))

Wit_C11 ==
    /\ convDone
    /\ post_pets \in DOMAIN functions
    /\ DeclaredOp(<<PetsPath, POST>>).RequestBody[1].Content[JSON].Schema = <<NestedSchema>>
    /\ functions[post_pets].Parameters.Properties.m[requestBody][1].Properties.m[ownerName][1].Required
          = <<nameName>>

\* C12: the description of every definition is the summary of its operation,
\* followed by a line break and the operation's description exactly when
\* that description is non-empty: "Get test data" and "Returns test data"
\* give the two joined by one line break, and an empty description gives
\* the summary alone, with no line break at its end.
Thm_C12 ==
    convDone =>
        \A n \in DOMAIN functions :
            LET f  == functions[n]
                op == DeclaredOp(OriginOf(f))
                ls == Len(op.Summary)
            IN  /\ SubSeq(f.Description, 1, ls) = op.Summary
                /\ op.Description = <<>> => Len(f.Description) = ls
                /\ op.Description # <<>> =>
                      /\ Len(f.Description) = ls + 1 + Len(op.Description)
                      /\ f.Description[ls + 1] = "\n"
                      /\ SubSeq(f.Description, ls + 2, Len(f.Description)) = op.Description
                /\ (op.Summary = GetTestData /\ op.Description = ReturnsTestData) =>
                      f.Description =
                          <<"G", "e", "t", " ", "t", "e", "s", "t", " ", "d", "a", "t", "a", "\n",
                            "R", "e", "t", "u", "r", "n", "s", " ", "t", "e", "s", "t", " ",
                            "d", "a", "t", "a">>
                /\ (op.Summary = GetTestData /\ op.Description = <<>>) =>
                      f.Description = GetTestData

Wit_C12 ==
    /\ convDone
    /\ post_pets \in DOMAIN functions
    /\ DeclaredOp(<<PetsPath, POST>>).Summary = GetTestData
    /\ DeclaredOp(<<PetsPath, POST>>).Description = ReturnsTestData
    /\ Len(functions[post_pets].Description) = 31
    /\ functions[post_pets].Description[14] = "\n"

----
(* Properties of decoding *)

DecodesAsJSON == jsonUnmarshal(inData, ZeroSpec).err = ""
DecodesAsYAML == yamlUnmarshal(inData, ZeroSpec).err = ""

\* C13: UnmarshalOpenAPISpec runs the JSON decoder first and the YAML
\* decoder only after the JSON decoder failed.  Input that decodes as JSON
\* yields the JSON decoding and a nil error; input that fails as JSON and
\* decodes as YAML yields a document and a nil error, the document being
\* the YAML decoding whenever the JSON decoder left nothing behind; when
\* both fail there is no document and the error is that of the YAML decoder.
Thm_C13 ==
    loader = "auto" =>
        /\ loadTried[1] = "json"
        /\ DecodesAsJSON =>
              /\ loadTried = <<"json">>
              /\ loadErr = ""
              /\ loadSpec = <<jsonUnmarshal(inData, ZeroSpec).spec>>
        /\ (~DecodesAsJSON /\ DecodesAsYAML) =>
              /\ loadTried = <<"json", "yaml">>
              /\ loadErr = ""
              /\ Len(loadSpec) = 1
              /\ jsonUnmarshal(inData, ZeroSpec).spec = ZeroSpec =>
                    loadSpec = <<yamlUnmarshal(inData, ZeroSpec).spec>>
        /\ (~DecodesAsJSON /\ ~DecodesAsYAML) =>
              /\ loadTried = <<"json", "yaml">>
              /\ loadSpec = <<>>
              /\ loadErr = yamlUnmarshal(inData, ZeroSpec).err
              /\ loadErr # jsonUnmarshal(inData, ZeroSpec).err

Wit_C13 ==
    /\ loader = "auto"
    /\ inData.syntax = "yaml"
    /\ loadTried = <<"json", "yaml">>
    /\ loadErr = ""
    /\ loadSpec = <<[OpenAPI |-> "3.0.0", Paths |-> "declared"]>>

----
(* Properties of the converted definitions as a whole *)

\* Some surfaced parameter of the operation is named requestBody.
HasBodyNamedParam(op) ==
    \E i \in DOMAIN op.Parameters :
        IsSurfaced(op.Parameters[i]) /\ Target(op.Parameters[i]).Name = requestBody

\* C26 as stated: the property requestBody is the conversion of the schema
\* of one of the media types that have a schema, and there is no property
\* requestBody when the operation has no request body or none of its media
\* types has a schema.
C26_AsStated ==
    convDone =>
        \A n \in DOMAIN functions :
            LET f     == functions[n]
                sl    == OriginOf(f)
                op    == DeclaredOp(sl)
                props == f.Parameters.Properties.m
            IN  /\ SchemaMedia(op) # {} =>
                      /\ requestBody \in DOMAIN props
                      /\ \E k \in SchemaMedia(op) :
                            Shape(props[requestBody][1], BodySchema(sl, k), FALSE)
                /\ SchemaMedia(op) = {} => requestBody \notin DOMAIN props

\* C26 (amended): the property requestBody is the conversion of the schema
\* of one of the media types that have a schema, whatever the number of
\* media types listed and the order they are visited in; when the operation
\* has no request body or none of its media types has a schema, the request
\* body contributes no property, so there is a property requestBody only
\* when a path or query parameter has that name.
Thm_C26 ==
    convDone =>
        \A n \in DOMAIN functions :
            LET f     == functions[n]
                sl    == OriginOf(f)
                op    == DeclaredOp(sl)
                props == f.Parameters.Properties.m
            IN  /\ SchemaMedia(op) # {} =>
                      /\ requestBody \in DOMAIN props
                      /\ \E k \in SchemaMedia(op) :
                            Shape(props[requestBody][1], BodySchema(sl, k), FALSE)
                /\ SchemaMedia(op) = {} =>
                      (requestBody \in DOMAIN props) = HasBodyNamedParam(op)

Wit_C26 ==
    /\ convDone
    /\ get_pets \in DOMAIN functions
    /\ SchemaMedia(DeclaredOp(<<PetsPath, GET>>)) = {JSON, XML}
    /\ BodySchema(<<PetsPath, GET>>, JSON) = <<PetSchema>>
    /\ functions[get_pets].Parameters.Properties.m[requestBody][1].Type = "string"

\* C27: every stored definition is self-consistent: its parameter schema
\* has type object and a properties map, and every name of its required
\* list, of PathParams and of QueryParams is a key of that map, whatever
\* the document: parameter names may repeat, references may resolve, and
\* the operation may have a request body.
Thm_C27 ==
    convDone =>
        \A n \in DOMAIN functions :
            LET f == functions[n]
            IN  /\ f.Parameters.Type = "object"
                /\ ~f.Parameters.Properties.isnil
                /\ Range(f.Parameters.Required) \subseteq DOMAIN f.Parameters.Properties.m
                /\ Range(f.PathParams) \subseteq DOMAIN f.Parameters.Properties.m
                /\ Range(f.QueryParams) \subseteq DOMAIN f.Parameters.Properties.m

\* A name that is both a path and a query parameter, once through a
\* resolved reference, next to a request body with a schema.
Wit_C27 ==
    /\ convDone
    /\ get_pets \in DOMAIN functions
    /\ \E i \in DOMAIN DeclaredOp(<<PetsPath, GET>>).Parameters :
           LET q == DeclaredOp(<<PetsPath, GET>>).Parameters[i]
           IN  q.Ref # <<>> /\ Target(q) # q
    /\ SchemaMedia(DeclaredOp(<<PetsPath, GET>>)) # {}
    /\ Range(functions[get_pets].PathParams) \cap Range(functions[get_pets].QueryParams) # {}
    /\ functions[get_pets].Parameters.Required # <<>>
    /\ DOMAIN functions[get_pets].Parameters.Properties.m
           = Range(functions[get_pets].PathParams) \cup {requestBody}

\* Every request body of the document has at most one media type with a
\* schema.
OneSchemaMedia ==
    \A sl \in DeclaredSlots : Cardinality(SchemaMedia(DeclaredOp(sl))) <= 1

\* C28: when no two operations generate the same name and every request
\* body has at most one media type with a schema, the conversion returns
\* the same mapping under every iteration order over the paths, the
\* methods and the media types, the order of the required list, of
\* PathParams and of QueryParams included.
Thm_C28 ==
    (convDone /\ NamesDistinct /\ OneSchemaMedia) =>
        \A order \in Orders(doc), mts \in MediaOrders(doc) :
            ConvertOpenAPIToFunctions(doc, order, mts) = functions

\* Two operations with parameters that more than one order can visit.
Wit_C28 ==
    /\ convDone /\ NamesDistinct /\ OneSchemaMedia
    /\ Cardinality(DOMAIN functions) = 2
    /\ Cardinality(Orders(doc)) > 1
    /\ \E n \in DOMAIN functions : functions[n].PathParams # <<>>
    /\ \E order \in Orders(doc) : order # convOrder

\* Two media types, one of them with a schema, visited in either order.
Wit_C28_Media ==
    /\ convDone /\ NamesDistinct /\ OneSchemaMedia
    /\ \E sl \in DeclaredSlots :
           /\ Cardinality(ContentKeys(DeclaredOp(sl))) = 2
           /\ Cardinality(SchemaMedia(DeclaredOp(sl))) = 1
           /\ mtOrder[sl][1] \in SchemaMedia(DeclaredOp(sl))

----
(* Properties of the authenticating transport and the client *)

\* The configuration of the transport of the client NewAPIClient returned.
TransportConfig == client[1].HTTPClient.Transport.config[1]

KnownTypes == {"none", "basic", "apikey-header", "apikey-cookie", "bearer", "oauth2", "cookie"}

Built == clientStatus = "ok"

Authorization(r) == r.Header["Authorization"]

\* The cookies on the Cookie line of a request.
CookieLine(r) == IF "Cookie" \in DOMAIN r.Header THEN r.Header["Cookie"][1] ELSE <<>>

CookiesOf(r) == Range(CookieLine(r))

\* A cookie the server has set: the cookies of the caller and of the
\* configuration have other names.
IsServerCookie(c) == c[1] = "sid"

\* C14: with auth type bearer and a token T, every request handed to the
\* wrapped transport has exactly one Authorization value, "Bearer T",
\* whatever Authorization header the caller's request had, and keeps its
\* other headers.
Thm_C14 ==
    (Built /\ TransportConfig.Type = "bearer" /\ TransportConfig.Token # "" /\ wire # <<>>) =>
        /\ "Authorization" \in DOMAIN wire[1].Header
        /\ Authorization(wire[1]) = <<<<"Bearer ", TransportConfig.Token>>>>
        /\ DOMAIN wire[1].Header = DOMAIN req[1].Header \cup {"Authorization"}
        /\ \A k \in DOMAIN req[1].Header \ {"Authorization"} :
              wire[1].Header[k] = req[1].Header[k]

Wit_C14 ==
    /\ Built /\ TransportConfig.Type = "bearer" /\ TransportConfig.Token = "T"
    /\ wire # <<>>
    /\ req[1].Header = OwnHeaders
    /\ Authorization(wire[1]) = <<<<"Bearer ", "T">>>>

\* C15: with auth type oauth2 and a token source, the source is asked once
\* on every request and the request carries the token it returned on that
\* request; without a source the static token is used; when the source
\* fails, or there is neither a source nor a static token, the call ends
\* with that error, nothing is handed to the wrapped transport and there is
\* no response.
Thm_C15 ==
    (Built /\ TransportConfig.Type = "oauth2" /\ calls > 0) =>
        /\ TransportConfig.TokenSource =>
              /\ Len(tokenLog) = calls
              /\ tokenLog[calls] # <<>> =>
                    /\ wire # <<>>
                    /\ Authorization(wire[1]) = <<<<"Bearer ", tokenLog[calls][1]>>>>
              /\ tokenLog[calls] = <<>> =>
                    /\ err = "failed to get OAuth2 token"
                    /\ wire = <<>> /\ response = <<>>
        /\ (~TransportConfig.TokenSource /\ TransportConfig.Token # "") =>
              /\ tokenLog = <<>>
              /\ wire # <<>>
              /\ Authorization(wire[1]) = <<<<"Bearer ", TransportConfig.Token>>>>
        /\ (~TransportConfig.TokenSource /\ TransportConfig.Token = "") =>
              /\ err = "OAuth2 requires either Token or TokenSource"
              /\ wire = <<>> /\ response = <<>>

Wit_C15 ==
    /\ Built /\ TransportConfig.Type = "oauth2" /\ TransportConfig.TokenSource
    /\ calls = 2
    /\ tokenLog = <<<<"R1">>, <<"R2">>>>
    /\ Authorization(wire[1]) = <<<<"Bearer ", "R2">>>>

\* C16: a configuration whose type is none of the seven known ones does not
\* keep the client from being built, and every request through it ends with
\* the error "unsupported auth type", nothing handed to the wrapped
\* transport and no response.
Thm_C16 ==
    (authConfig # <<>> /\ authConfig[1].Type \notin KnownTypes) =>
        /\ (clientStatus # "none" /\ ~Parse(baseURL).err) => (Built /\ client # <<>>)
        /\ calls > 0 =>
              /\ err = "unsupported auth type"
              /\ wire = <<>> /\ response = <<>>

Wit_C16 ==
    /\ Built /\ authConfig[1].Type = "digest"
    /\ calls = 2
    /\ err = "unsupported auth type"

Sent == calls' = calls + 1 /\ handler' = "Do" /\ wire' # <<>>

HasJar == Built /\ client[1].HTTPClient.Jar

\* The cookie path cp covers the request path rp.
Covers(cp, rp) == cp = <<"/">> \/ rp = cp \/ HasPrefix(rp, cp \o <<"/">>)

\* The directory of a request path.
DirOf(rp) ==
    LET n == CHOOSE i \in DOMAIN rp : rp[i] = "/" /\ \A j \in DOMAIN rp : rp[j] = "/" => j <= i
    IN  IF n = 1 THEN <<"/">> ELSE SubSeq(rp, 1, n - 1)

----
(* Properties of the executor's request body and result *)

HasBodyArg == requestBody \in DOMAIN callArgs

PetJSON ==
    <<"{", "DQUOTE", "n", "a", "m", "e", "DQUOTE", ":", "DQUOTE", "R", "e", "x", "DQUOTE", "}">>

\* C19 as stated: the request has a body, and the Content-Type header,
\* exactly when the argument map has the key requestBody.
C19_AsStated ==
    (handler \in {"PathParams", "RangeArgs"} /\ req # <<>>) =>
        /\ (req[1].Body # <<>>) = HasBodyArg
        /\ ("Content-Type" \in DOMAIN req[1].Header) = HasBodyArg

\* C19 (amended): the request has a body exactly when the argument map has
\* the key requestBody with a value other than null; the body is then the
\* JSON text of that value and the header Content-Type is application/json;
\* otherwise there is no body and no Content-Type header.
Thm_C19 ==
    (handler \in {"PathParams", "RangeArgs"} /\ req # <<>>) =>
        LET present == HasBodyArg /\ callArgs[requestBody] # NilValue
        IN  /\ (req[1].Body # <<>>) = present
            /\ ("Content-Type" \in DOMAIN req[1].Header) = present
            /\ present =>
                  /\ req[1].Body = <<Marshal(callArgs[requestBody])>>
                  /\ req[1].Header["Content-Type"] = <<<<"application/json">>>>
                  /\ callArgs[requestBody] = PetValue => req[1].Body = <<PetJSON>>
            /\ ~present => req[1].Header = <<>>

Wit_C19 ==
    /\ handler = "RangeArgs" /\ req # <<>>
    /\ HasBodyArg
    /\ callArgs[requestBody] = PetValue
    /\ req[1].Body = <<PetJSON>>
    /\ "Content-Type" \in DOMAIN req[1].Header

\* C20: once a response is delivered its status code plays no part: a body
\* that is a JSON value gives that value and a nil error, under 200 and
\* under 404 alike, and any other body gives an error and no result; a call
\* whose request was created ends in an error exactly when no response was
\* delivered or the body cannot be decoded.
Thm_C20 ==
    (handler \in {"PathParams", "RangeArgs"} /\ req # <<>>) =>
        /\ response # <<>> =>
              /\ response[1].Body = "json" => (err = "" /\ result = <<"value">>)
              /\ response[1].Body = "null" => (err = "" /\ result = <<>>)
              /\ response[1].Body \in {"empty", "text", "truncated"} =>
                    (err # "" /\ result = <<>>)
        /\ (err # "") = (response = <<>> \/ response[1].Body \in {"empty", "text", "truncated"})
        /\ err # "" => result = <<>>

Wit_C20 ==
    /\ handler = "PathParams"
    /\ response # <<>>
    /\ response[1].StatusCode = 404
    /\ response[1].Body = "json"
    /\ err = "" /\ result = <<"value">>

----
(* Properties of one call of ExecuteFunction as a whole *)

Executed == handler \in {"PathParams", "RangeArgs"}

\* C21: whenever the HTTP client has returned a response, the body of the
\* response has been read to its end and closed when ExecuteFunction
\* returns, whether or not the body could be decoded.
C21_AsStated ==
    (Executed /\ response # <<>>) => (bodyClosed /\ bodyRead = "all")

\* C22: the request ExecuteFunction sends carries the context its caller
\* runs under, and a call made under a context whose deadline has passed
\* ends with an error.
C22_AsStated ==
    (Executed /\ req # <<>>) =>
        /\ req[1].Ctx = callCtx
        /\ wire # <<>> => wire[1].Ctx = callCtx
        /\ callCtx = "expired" => err # ""

\* C24: a call hands at most one request to the HTTP client: exactly one
\* when the request could be built and none when it could not; that request
\* reaches the wrapped transport at most once, and when the transport fails
\* the call returns its error and no result.
Thm_C24 ==
    Executed =>
        /\ attempts = (IF req # <<>> THEN 1 ELSE 0)
        /\ rtCalls <= attempts
        /\ req = <<>> => (err \in {"parse", "marshal"} /\ wire = <<>> /\ response = <<>>)
        /\ (rtCalls = 1 /\ response = <<>>) => (err = "transport" /\ result = <<>>)

Wit_C24 ==
    /\ Executed
    /\ attempts = 1 /\ rtCalls = 1
    /\ response = <<>>
    /\ err = "transport"

\* The names of a parameter list that the argument map does not have.
Missing(names) == {names[i] : i \in DOMAIN names} \ DOMAIN callArgs

\* C25: when a name of the path-parameter or query-parameter list is absent
\* from the argument map the call still builds and issues its request, in
\* which the placeholder of an absent path parameter is replaced by, and
\* the query key of an absent query parameter is set to, the string form of
\* the zero value.
C25_AsStated ==
    (/\ Executed
     /\ Missing(callFn.PathParams) \cup Missing(callFn.QueryParams) # {}
     /\ ~marshalFails(ArgAt(callArgs, requestBody))) =>
        /\ req # <<>>
        /\ \A pp \in Missing(callFn.PathParams) :
              /\ ~Contains(String(req[1].URL), Placeholder(pp))
              /\ ~Contains(String(req[1].URL), escape(Placeholder(pp), "encodePath"))
              /\ EscapedPath(req[1].URL) =
                     EscapedPath(client[1].BaseURL)
                     \o Substituted(callFn.OapiPath, callFn.PathParams, callArgs)
        /\ \A qp \in Missing(callFn.QueryParams) :
              /\ qp \in DOMAIN Query(req[1].URL)
              /\ Query(req[1].URL)[qp] = <<Sprint(NilValue)>>

----
(* Properties of calls that share a definition and a client *)

\* The client as NewAPIClient returned it.
FreshClient == NewAPIClientResult(baseURL, authConfig).client[1]

\* The requests a call with the arguments a builds when it runs alone on
\* the fresh client: one, or one for every order in which the variant of
\* fhandler.go may visit the keys of a.
AloneRequests(a) ==
    IF handler = "PathParams"
    THEN {newRequest(callFn, buildURL(FreshClient, callFn, a), ArgAt(a, requestBody))}
    ELSE {newRequest(callFn, buildURLRangeArgs(FreshClient, callFn, a, k), ArgAt(a, requestBody)) :
            k \in Perms(DOMAIN a)}

----
(* Properties of RoundTrip called on its own *)

AuthErrors == {"failed to get OAuth2 token",
               "OAuth2 requires either Token or TokenSource",
               "unsupported auth type"}

\* The call ran into one of the authentication failures: the token source
\* failed, the oauth2 configuration has neither token nor source, or the
\* type is not a known one.
AuthFails ==
    /\ authConfig # <<>>
    /\ \/ authConfig[1].Type \notin KnownTypes
       \/ /\ authConfig[1].Type = "oauth2"
          /\ \/ authConfig[1].TokenSource /\ tokenLog # <<>> /\ tokenLog[Len(tokenLog)] = <<>>
             \/ ~authConfig[1].TokenSource /\ authConfig[1].Token = ""

\* C29: RoundTrip calls the wrapped transport exactly once when the
\* credentials were added, and for the type none and a nil configuration;
\* when it ends with an authentication error it never calls it, so that no
\* request without credentials leaves the client, and there is no response.
Thm_C29 ==
    handler = "RoundTrip" =>
        /\ AuthFails =>
              /\ rtCalls = 0 /\ wire = <<>> /\ response = <<>>
              /\ err \in AuthErrors
        /\ ~AuthFails =>
              /\ rtCalls = 1 /\ wire # <<>>
              /\ err \in {"", "transport"}

\* The token source fails: nothing is handed to the wrapped transport.
Wit_C29 ==
    /\ handler = "RoundTrip"
    /\ authConfig # <<>> /\ authConfig[1].Type = "oauth2" /\ authConfig[1].TokenSource
    /\ tokenLog = <<<<>>>>
    /\ rtCalls = 0 /\ wire = <<>>
    /\ err = "failed to get OAuth2 token"

\* A nil configuration: the request goes to the wrapped transport once, as
\* the caller made it.
Wit_C29_Nil ==
    /\ handler = "RoundTrip"
    /\ authConfig = <<>>
    /\ rtCalls = 1 /\ wire = req /\ response # <<>>

----
(* Properties of convertSchemaToProperty called on its own *)

\* C30: converting a converted node returns it unchanged, and the converted
\* node has the type, the description and the property names of the schema
\* node at every level, with the required list of every node that has
\* properties (a property without a schema is a string).
Thm_C30 ==
    /\ outAgain # <<>> => outAgain = outSchema
    /\ (outSchema # <<>> /\ inSchema # <<>>) => Shape(outSchema[1], inSchema, FALSE)

\* A node of two levels with a required list at the top, where it is kept,
\* and at the leaf, where it is not, and a format, which is not copied.
Wit_C30 ==
    /\ outAgain # <<>> /\ inSchema # <<>>
    /\ inSchema[1].Required = <<nameName>>
    /\ ~inSchema[1].Properties.isnil
    /\ DOMAIN inSchema[1].Properties.m = {nameName}
    /\ inSchema[1].Properties.m[nameName] # <<>>
    /\ LET c == inSchema[1].Properties.m[nameName][1]
       IN  /\ ~c.Properties.isnil /\ DOMAIN c.Properties.m = {nameName}
           /\ c.Properties.m[nameName] # <<>>
           /\ c.Properties.m[nameName][1].Required = <<nameName>>
           /\ c.Properties.m[nameName][1].Format = "int32"
    /\ outSchema[1].Required = <<nameName>>
    /\ outSchema # inSchema
    /\ outAgain = outSchema

====
